---- MODULE Spec2Model ----
(***************************************************************************)
(* PyATS show-command API: the validation layer of app/models.py, the      *)
(* HTTP orchestrator of app/main.py (execute_commands / process_device),   *)
(* the MCP tool of mcp_server.py, and the DeviceManager / JumphostManager  *)
(* objects they drive.                                                     *)
(*                                                                         *)
(* Text is modelled as a sequence of one-character strings, so that        *)
(* trimming, prefix tests, pattern searches and string building are        *)
(* computed character by character.                                        *)
(***************************************************************************)
EXTENDS Integers, Sequences, FiniteSets, TLC

(***************************************************************************)
(* Bounds of the model.                                                    *)
(***************************************************************************)
MaxDevices == 2

MaxCommands == 2

(***************************************************************************)
(* Characters and text helpers.                                            *)
(***************************************************************************)
\* Python's None (written as a one-element tuple so that it compares with text)
None == <<"None">>

LowerLetters == {"a","b","c","d","e","f","g","h","i","j","k","l","m",
                 "n","o","p","q","r","s","t","u","v","w","x","y","z"}

UpperLetters == {"A","B","C","D","E","F","G","H","I","J","K","L","M",
                 "N","O","P","Q","R","S","T","U","V","W","X","Y","Z"}

Digits == {"0","1","2","3","4","5","6","7","8","9"}

\* str.strip() and the regex class \s: space, tab, newline, carriage return, form feed
Whitespace == {" ", "\t", "\n", "\r", "\f"}

LowerOf == [c \in UpperLetters |->
              CASE c = "A" -> "a" [] c = "B" -> "b" [] c = "C" -> "c" [] c = "D" -> "d"
                [] c = "E" -> "e" [] c = "F" -> "f" [] c = "G" -> "g" [] c = "H" -> "h"
                [] c = "I" -> "i" [] c = "J" -> "j" [] c = "K" -> "k" [] c = "L" -> "l"
                [] c = "M" -> "m" [] c = "N" -> "n" [] c = "O" -> "o" [] c = "P" -> "p"
                [] c = "Q" -> "q" [] c = "R" -> "r" [] c = "S" -> "s" [] c = "T" -> "t"
                [] c = "U" -> "u" [] c = "V" -> "v" [] c = "W" -> "w" [] c = "X" -> "x"
                [] c = "Y" -> "y" [] c = "Z" -> "z"]

\* str.lower(), one character
LowerChar(c) == IF c \in UpperLetters THEN LowerOf[c] ELSE c

\* str.lower()
Lower(s) == [i \in 1..Len(s) |-> LowerChar(s[i])]

\* str.startswith(prefix)
StartsWith(s, prefix) ==
    /\ Len(s) >= Len(prefix)
    /\ SubSeq(s, 1, Len(prefix)) = prefix

\* re.search of a literal pattern: the pattern occurs somewhere in s
Contains(s, pat) ==
    \E i \in 1..(Len(s) - Len(pat) + 1) : \A k \in 1..Len(pat) : s[i + k - 1] = pat[k]

\* str.strip(): drop leading and trailing whitespace
Strip(s) ==
    LET keep == {i \in 1..Len(s) : s[i] \notin Whitespace}
    IN  IF keep = {} THEN <<>>
        ELSE LET lo == CHOOSE i \in keep : \A j \in keep : i <= j
                 hi == CHOOSE i \in keep : \A j \in keep : i >= j
             IN  SubSeq(s, lo, hi)

(***************************************************************************)
(* app/models.py: enumerations.                                            *)
(***************************************************************************)
kw_include == <<"i","n","c","l","u","d","e">>

kw_exclude == <<"e","x","c","l","u","d","e">>

kw_begin == <<"b","e","g","i","n">>

kw_section == <<"s","e","c","t","i","o","n">>

PipeOption == {kw_include, kw_exclude, kw_begin, kw_section}

kw_show == <<"s","h","o","w">>

(***************************************************************************)
(* app/models.py: ShowCommand.                                             *)
(***************************************************************************)
MaxCommandLength == 1000

MaxPipeValueLength == 500

\* the backtick character (it cannot be written inside a TLA+ string)
Backtick == "BACKTICK"

\* DANGEROUS_PATTERNS, in list order
DANGEROUS_PATTERNS ==
    << <<";">>, <<"\n">>, <<"\r">>, <<Backtick>>, <<"$">>, <<"|">>, <<"&","&">>,
       <<"|","|">>, <<">">>, <<"<">>, <<"&">>, <<"!">> >>

\* the first pattern of DANGEROUS_PATTERNS found in v, 0 when none is
FirstDangerous(v) ==
    LET hits == {k \in 1..Len(DANGEROUS_PATTERNS) : Contains(v, DANGEROUS_PATTERNS[k])}
    IN  IF hits = {} THEN 0 ELSE CHOOSE k \in hits : \A j \in hits : k <= j

\* the character class [a-zA-Z0-9\s\-_\.]
CommandClass == LowerLetters \cup UpperLetters \cup Digits \cup Whitespace \cup {"-", "_", "."}

\* the character class [a-zA-Z0-9\s\-_\.,\(\)]
PipeValueClass == CommandClass \cup {",", "(", ")"}

\* SHOW_COMMAND_PATTERN.match(v): ^show\s+[a-zA-Z0-9\s\-_\.]+$ with re.IGNORECASE.
\* The class contains \s, so a match exists iff the fifth character is
\* whitespace and at least one more class character follows to the end
\* ($ also matches before one final newline, which is itself in the class).
SHOW_COMMAND_PATTERN(v) ==
    /\ Len(v) >= 6
    /\ Lower(SubSeq(v, 1, 4)) = kw_show
    /\ v[5] \in Whitespace
    /\ \A i \in 6..Len(v) : v[i] \in CommandClass

\* PIPE_VALUE_PATTERN.match(v): ^[a-zA-Z0-9\s\-_\.,\(\)]+$
PIPE_VALUE_PATTERN(v) ==
    /\ Len(v) >= 1
    /\ \A i \in 1..Len(v) : v[i] \in PipeValueClass

\* a validator returned v
Ok(v) == [ok |-> TRUE, value |-> v, error |-> "", pattern |-> 0]

\* a validator raised ValueError(msg); k is the DANGEROUS_PATTERNS index it names
Err(msg, k) == [ok |-> FALSE, value |-> <<>>, error |-> msg, pattern |-> k]

\* a plausible slip: the verb test and the verb of the pattern are left out
validate_command_AnyVerb(v) ==
    LET s == Strip(v)
    IN  IF v = <<>> THEN Err("Command cannot be empty", 0)
        ELSE IF Len(s) = 0 THEN Err("Command cannot be empty", 0)
        ELSE IF Len(s) > MaxCommandLength THEN Err("Command exceeds maximum length", 0)
        ELSE IF FirstDangerous(s) # 0
             THEN Err("Command contains disallowed character(s)", FirstDangerous(s))
        ELSE IF ~(\A i \in 1..Len(s) : s[i] \in CommandClass)
             THEN Err("Command must be 'show' followed by valid parameters", 0)
        ELSE Ok(s)

\* a plausible slip: the verb is looked for anywhere in the command
validate_command_VerbAnywhere(v) ==
    LET s == Strip(v)
    IN  IF v = <<>> THEN Err("Command cannot be empty", 0)
        ELSE IF Len(s) = 0 THEN Err("Command cannot be empty", 0)
        ELSE IF Len(s) > MaxCommandLength THEN Err("Command exceeds maximum length", 0)
        ELSE IF ~Contains(Lower(s), kw_show) THEN Err("Only 'show' commands are allowed", 0)
        ELSE IF FirstDangerous(s) # 0
             THEN Err("Command contains disallowed character(s)", FirstDangerous(s))
        ELSE IF ~SHOW_COMMAND_PATTERN(s)
             THEN Err("Command must be 'show' followed by valid parameters", 0)
        ELSE Ok(s)

\* a plausible slip: the scan of DANGEROUS_PATTERNS is left to the format check
validate_command_NoScan(v) ==
    LET s == Strip(v)
    IN  IF v = <<>> THEN Err("Command cannot be empty", 0)
        ELSE IF Len(s) = 0 THEN Err("Command cannot be empty", 0)
        ELSE IF Len(s) > MaxCommandLength THEN Err("Command exceeds maximum length", 0)
        ELSE IF ~StartsWith(Lower(s), kw_show) THEN Err("Only 'show' commands are allowed", 0)
        ELSE IF ~SHOW_COMMAND_PATTERN(s)
             THEN Err("Command must be 'show' followed by valid parameters", 0)
        ELSE Ok(s)

\* a plausible slip: the length of the command is not tested
validate_command_NoLength(v) ==
    LET s == Strip(v)
    IN  IF v = <<>> THEN Err("Command cannot be empty", 0)
        ELSE IF Len(s) = 0 THEN Err("Command cannot be empty", 0)
        ELSE IF ~StartsWith(Lower(s), kw_show) THEN Err("Only 'show' commands are allowed", 0)
        ELSE IF FirstDangerous(s) # 0
             THEN Err("Command contains disallowed character(s)", FirstDangerous(s))
        ELSE IF ~SHOW_COMMAND_PATTERN(s)
             THEN Err("Command must be 'show' followed by valid parameters", 0)
        ELSE Ok(s)

\* ShowCommand.validate_command
validate_command(v) ==
    LET s == Strip(v)
    IN  IF v = <<>> THEN Err("Command cannot be empty", 0)
        ELSE IF Len(s) = 0 THEN Err("Command cannot be empty", 0)
        ELSE IF Len(s) > MaxCommandLength THEN Err("Command exceeds maximum length", 0)
        ELSE IF ~StartsWith(Lower(s), kw_show) THEN Err("Only 'show' commands are allowed", 0)
        ELSE IF FirstDangerous(s) # 0
             THEN Err("Command contains disallowed character(s)", FirstDangerous(s))
        ELSE IF ~SHOW_COMMAND_PATTERN(s)
             THEN Err("Command must be 'show' followed by valid parameters", 0)
        ELSE Ok(s)

\* ShowCommand.validate_pipe_value (None is passed through, the value is not trimmed)
validate_pipe_value(v) ==
    IF v = None THEN Ok(None)
    ELSE IF Len(v) = 0 THEN Err("Pipe value cannot be empty", 0)
    ELSE IF Len(v) > MaxPipeValueLength THEN Err("Pipe value exceeds maximum length", 0)
    ELSE IF FirstDangerous(v) # 0
         THEN Err("Pipe value contains disallowed character(s)", FirstDangerous(v))
    ELSE IF ~PIPE_VALUE_PATTERN(v) THEN Err("Pipe value contains invalid characters", 0)
    ELSE Ok(v)

\* the pipe_option field: Optional[PipeOption], an enumeration member or None
validate_pipe_option(v) ==
    IF v = None \/ v \in PipeOption THEN Ok(v) ELSE Err("Input should be a PipeOption", 0)

\* ShowCommand(command=..., pipe_option=..., pipe_value=...): every field
\* validator must pass, otherwise the construction raises ValidationError
ShowCommand(raw) ==
    LET c == validate_command(raw.command)
        o == validate_pipe_option(raw.pipe_option)
        p == validate_pipe_value(raw.pipe_value)
    IN  IF c.ok /\ o.ok /\ p.ok
        THEN [ok |-> TRUE,
              value |-> [command |-> c.value, pipe_option |-> o.value, pipe_value |-> p.value],
              error |-> "", pattern |-> 0]
        ELSE [ok |-> FALSE, value |-> None,
              error |-> IF ~c.ok THEN c.error ELSE IF ~o.ok THEN o.error ELSE p.error,
              pattern |-> IF ~c.ok THEN c.pattern ELSE 0]

\* a plausible slip: no blank before the pipe
get_full_command_NoBlank(cmd) ==
    IF cmd.pipe_option # None /\ cmd.pipe_value # None /\ cmd.pipe_value # <<>>
    THEN cmd.command \o <<"|", " ">> \o cmd.pipe_option \o <<" ">> \o cmd.pipe_value
    ELSE cmd.command

\* ShowCommand.get_full_command
get_full_command(cmd) ==
    IF cmd.pipe_option # None /\ cmd.pipe_value # None /\ cmd.pipe_value # <<>>
    THEN cmd.command \o <<" ", "|", " ">> \o cmd.pipe_option \o <<" ">> \o cmd.pipe_value
    ELSE cmd.command

(***************************************************************************)
(* app/models.py: DeviceCredentials.                                       *)
(***************************************************************************)
MaxHostnameLength == 255

MaxUsernameLength == 255

MaxPasswordLength == 1024

MinPort == 1

MaxPort == 65535

DefaultPort == 22

Alnum == LowerLetters \cup UpperLetters \cup Digits

\* ^[a-zA-Z0-9\:][a-zA-Z0-9\.\:\-]*[a-zA-Z0-9] up to the end of w
HostnameBody(w) ==
    /\ Len(w) >= 2
    /\ w[1] \in Alnum \cup {":"}
    /\ w[Len(w)] \in Alnum
    /\ \A i \in 2..(Len(w) - 1) : w[i] \in Alnum \cup {".", ":", "-"}

\* re.match(p, v) for a pattern p ending in $: $ matches at the end of v and
\* also just before one final newline, so p is matched against these texts
MatchToDollar(v) ==
    {v} \cup (IF Len(v) >= 1 /\ v[Len(v)] = "\n" THEN {SubSeq(v, 1, Len(v) - 1)} ELSE {})

\* ^[a-zA-Z0-9]
HostnameSingle(w) == Len(w) = 1 /\ w[1] \in Alnum

\* DeviceCredentials.validate_hostname
validate_hostname(v) ==
    IF Len(v) = 0 THEN Err("Hostname cannot be empty", 0)
    ELSE IF Len(v) > MaxHostnameLength THEN Err("Hostname exceeds maximum length", 0)
    ELSE IF /\ ~(\E w \in MatchToDollar(v) : HostnameBody(w))
            /\ ~(\E w \in MatchToDollar(v) : HostnameSingle(w))
         THEN Err("Invalid hostname/IP format", 0)
    ELSE Ok(v)

\* a plausible slip: the lower limit is 0
validate_port_FromZero(v) ==
    IF ~(0 <= v /\ v <= MaxPort) THEN Err("Port must be between 1 and 65535", 0)
    ELSE Ok(v)

\* DeviceCredentials.validate_port
validate_port(v) ==
    IF ~(MinPort <= v /\ v <= MaxPort) THEN Err("Port must be between 1 and 65535", 0)
    ELSE Ok(v)

\* DeviceCredentials.validate_username
validate_username(v) ==
    IF Len(v) = 0 THEN Err("Username cannot be empty", 0)
    ELSE IF Len(v) > MaxUsernameLength THEN Err("Username exceeds maximum length", 0)
    ELSE Ok(v)

\* DeviceCredentials.validate_password
validate_password(v) ==
    IF Len(v) = 0 THEN Err("Password cannot be empty", 0)
    ELSE IF Len(v) > MaxPasswordLength THEN Err("Password exceeds maximum length", 0)
    ELSE Ok(v)

kw_junos == <<"j","u","n","o","s">>

os_ios == <<"i","o","s">>

os_iosxe == <<"i","o","s","x","e">>

os_iosxr == <<"i","o","s","x","r">>

os_nxos == <<"n","x","o","s">>

os_asa == <<"a","s","a">>

\* the values of the DeviceOS enumeration
DeviceOS == {os_ios, os_iosxe, os_iosxr, os_nxos, os_asa}

\* a plausible slip: junos is recognised in lower case only
validate_os_ExactCase(v) ==
    IF v = kw_junos THEN Err("JunOS is not supported", 0)
    ELSE IF v \notin DeviceOS THEN Err("Input should be 'ios', 'iosxe', 'iosxr', 'nxos' or 'asa'", 0)
    ELSE Ok(v)

\* DeviceCredentials.validate_os (mode='before') followed by the enumeration check
validate_os(v) ==
    IF Lower(v) = kw_junos THEN Err("JunOS is not supported", 0)
    ELSE IF v \notin DeviceOS THEN Err("Input should be 'ios', 'iosxe', 'iosxr', 'nxos' or 'asa'", 0)
    ELSE Ok(v)

\* an Optional[object] field: <<>> is None, <<x>> holds the object x
NoObject == <<>>

Some(x) == <<x>>

\* JumphostConfig(host, port, username, key_path): the per-device proxy
\* settings, an optional field of DeviceCredentials
JumphostConfig(opt) ==
    IF opt = NoObject THEN Ok(NoObject)
    ELSE LET raw == opt[1]
         IN  IF Len(raw.host) = 0 THEN Err("Jumphost host cannot be empty", 0)
             ELSE IF Len(raw.host) > MaxHostnameLength
                  THEN Err("Jumphost host exceeds maximum length", 0)
             ELSE IF ~validate_port(raw.port).ok THEN validate_port(raw.port)
             ELSE IF ~validate_username(raw.username).ok THEN validate_username(raw.username)
             ELSE Ok(opt)

\* DeviceCredentials(...): every field validator must pass
DeviceCredentials(raw) ==
    LET h == validate_hostname(raw.hostname)
        p == validate_port(raw.port)
        u == validate_username(raw.username)
        w == validate_password(raw.password)
        o == validate_os(raw.os)
        j == JumphostConfig(raw.jumphost)
    IN  IF h.ok /\ p.ok /\ u.ok /\ w.ok /\ o.ok /\ j.ok
        THEN [ok |-> TRUE, value |-> raw, error |-> ""]
        ELSE [ok |-> FALSE, value |-> None,
              error |-> IF ~h.ok THEN h.error ELSE IF ~p.ok THEN p.error
                        ELSE IF ~u.ok THEN u.error ELSE IF ~w.ok THEN w.error
                        ELSE IF ~o.ok THEN o.error ELSE j.error]

\* class OutputFormat: the values of the request field output_format
OutputFormat == {"raw", "parsed", "both"}

\* output_format: OutputFormat = OutputFormat.RAW
DefaultOutputFormat == "raw"

\* the raw commands that pass the ShowCommand validators, in order
RECURSIVE KeepValid(_)
KeepValid(items) ==
    IF items = <<>> THEN <<>>
    ELSE (IF ShowCommand(Head(items)).ok THEN <<Head(items)>> ELSE <<>>)
         \o KeepValid(Tail(items))

\* a lenient request model: invalid commands are dropped and the rest is run
ShowCommandRequest_DropInvalid(raw) ==
    LET kept == KeepValid(raw.commands)
    IN  IF \A i \in 1..Len(raw.devices) : DeviceCredentials(raw.devices[i]).ok
        THEN [ok |-> TRUE,
              value |-> [devices |-> [i \in 1..Len(raw.devices) |->
                                         DeviceCredentials(raw.devices[i]).value],
                         commands |-> [j \in 1..Len(kept) |-> ShowCommand(kept[j]).value],
                         use_jumphost |-> raw.use_jumphost,
                         timeout |-> raw.timeout,
                         output_format |-> raw.output_format]]
        ELSE [ok |-> FALSE, value |-> None]

\* ShowCommandRequest(devices, commands, use_jumphost, timeout): the request
\* body is accepted only when every device and every command is
ShowCommandRequest(raw) ==
    IF /\ \A i \in 1..Len(raw.devices) : DeviceCredentials(raw.devices[i]).ok
       /\ \A j \in 1..Len(raw.commands) : ShowCommand(raw.commands[j]).ok
       /\ raw.output_format \in OutputFormat
    THEN [ok |-> TRUE,
          value |-> [devices |-> [i \in 1..Len(raw.devices) |-> DeviceCredentials(raw.devices[i]).value],
                     commands |-> [j \in 1..Len(raw.commands) |-> ShowCommand(raw.commands[j]).value],
                     use_jumphost |-> raw.use_jumphost,
                     timeout |-> raw.timeout,
                     output_format |-> raw.output_format]]
    ELSE [ok |-> FALSE, value |-> None]

(***************************************************************************)
(* The inputs the handlers are offered: raw request bodies built from a    *)
(* few device entries and command entries, valid and invalid.              *)
(***************************************************************************)
\* all sequences over S of length 0..n
SeqUpTo(S, n) == UNION {[1..k -> S] : k \in 0..n}

txt_u == <<"u">>

txt_pw == <<"p","w">>

txt_key == <<"k">>

\* two proxy identities; jumphostA has the identity of the global settings
jumphostA == [host |-> <<"j","A">>, port |-> DefaultPort, username |-> txt_u, key_path |-> txt_key]

jumphostB == [host |-> <<"j","B">>, port |-> DefaultPort, username |-> txt_u, key_path |-> txt_key]

RawDevice(h, os, port, jh) ==
    [hostname |-> h, port |-> port, username |-> txt_u, password |-> txt_pw,
     os |-> os, enable_password |-> None, jumphost |-> jh]

ValidRawDevices ==
    { RawDevice(<<"r","1">>, os_ios, DefaultPort, NoObject),
      RawDevice(<<"r","2">>, os_nxos, DefaultPort, Some(jumphostA)),
      RawDevice(<<"r","3">>, os_asa, DefaultPort, Some(jumphostB)) }

InvalidRawDevices ==
    { RawDevice(<<"r","1">>, <<"J","u","n","O","S">>, DefaultPort, NoObject) }

RawDevices == ValidRawDevices \cup InvalidRawDevices

RawCommand(c, o, v) == [command |-> c, pipe_option |-> o, pipe_value |-> v]

ValidRawCommands ==
    { RawCommand(<<" ","S","h","o","w"," ","a">>, None, None),
      RawCommand(<<"s","h","o","w"," ","b">>, kw_include, <<"x">>),
      RawCommand(<<"s","h","o","w"," ","c">>, None, None) }

InvalidRawCommands ==
    { RawCommand(<<"c","o","n","f"," ","t">>, None, None),
      RawCommand(<<"s","h","o","w"," ","a">>, kw_include, <<"x","|","y">>) }

RawCommands == ValidRawCommands \cup InvalidRawCommands

DefaultTimeout == 30

(***************************************************************************)
(* Python values and the result models of app/models.py.                   *)
(***************************************************************************)
\* a str value
PyStr(t) == [type |-> "str", text |-> t, items |-> <<>>]

\* a tuple value
PyTuple(t) == [type |-> "tuple", text |-> <<>>, items |-> t]

\* what the device prints for a command
RawOutput(full_command) == <<"#">> \o full_command

\* CommandResult(command=, output=, success=, error=): output is declared str,
\* so any other value makes the construction raise ValidationError; error is
\* Optional[str], NoObject or Some(message)
CommandResult(command, output, success, error) ==
    IF output.type # "str"
    THEN [ok |-> FALSE, value |-> None,
          error |-> "1 validation error for CommandResult: output: Input should be a valid string"]
    ELSE [ok |-> TRUE,
          value |-> [command |-> command, output |-> output.text, success |-> success,
                     parsed |-> None, parse_error |-> None, error |-> error],
          error |-> ""]

\* DeviceResult(hostname=, success=, commands=, error=)
DeviceResult(hostname, success, commands, error) ==
    [hostname |-> hostname, success |-> success, commands |-> commands, error |-> error]

\* sum(1 for r in results if r.success)
CountSuccessful(rs) == Cardinality({i \in 1..Len(rs) : rs[i].success})

\* a mistaken count: every result is counted as successful
ShowCommandResponse_CountAll(rs) ==
    [results |-> rs,
     total_devices |-> Len(rs),
     successful_devices |-> Len(rs),
     failed_devices |-> Len(rs) - CountSuccessful(rs)]

\* the summary statistics and the ShowCommandResponse of execute_commands
ShowCommandResponse(rs) ==
    [results |-> rs,
     total_devices |-> Len(rs),
     successful_devices |-> CountSuccessful(rs),
     failed_devices |-> Len(rs) - CountSuccessful(rs)]

(***************************************************************************)
(* Network events, in the order they happen: "jumphost_connect",           *)
(* "jumphost_connect_failed", "jumphost_close", "device_connect",          *)
(* "device_connect_failed", "execute" (data: the text sent) and            *)
(* "device_disconnect".  A close or disconnect that raised carries the     *)
(* data <<"error">>.  timeout is the ceiling the call was given, NoTimeout  *)
(* when it was given none.                                                 *)
(***************************************************************************)
NoTimeout == 0

CallEvent(op, host, data, timeout) ==
    [op |-> op, host |-> host, data |-> data, timeout |-> timeout]

Event(op, host, data) == CallEvent(op, host, data, NoTimeout)

(***************************************************************************)
(* app/jumphost.py: JumphostManager.                                       *)
(***************************************************************************)
\* JumphostManager(jumphost_host, jumphost_port, jumphost_username, jumphost_key_path)
JumphostManager(host, port, username, key_path) ==
    [jumphost_host |-> host, jumphost_port |-> port, jumphost_username |-> username,
     jumphost_key_path |-> key_path, client |-> "None"]

\* client.connect(..., timeout=10)
JumphostConnectTimeout == 10

\* how JumphostManager.connect can end
JumphostConnectOutcomes == {"ok", "FileNotFoundError", "SSHException"}

\* JumphostManager.connect: the key is loaded first; only then is the SSH
\* client created and the network connection attempted
JumphostManager_connect(jm, out) ==
    IF out = "FileNotFoundError"
    THEN [obj |-> jm, raised |-> "SSH key not found", events |-> <<>>]
    ELSE IF out = "ValueError"
    THEN [obj |-> jm, raised |-> "Unable to load private key", events |-> <<>>]
    ELSE IF out = "SSHException"
    THEN [obj |-> [jm EXCEPT !.client = "unconnected"],
          raised |-> "Unable to connect to jumphost",
          events |-> <<CallEvent("jumphost_connect_failed", jm.jumphost_host, <<>>,
                                 JumphostConnectTimeout)>>]
    ELSE [obj |-> [jm EXCEPT !.client = "connected"],
          raised |-> "",
          events |-> <<CallEvent("jumphost_connect", jm.jumphost_host, <<>>,
                                 JumphostConnectTimeout)>>]

\* JumphostManager.get_transport_channel(dest_host, dest_port): a
\* "direct-tcpip" channel to the destination is opened on the transport of
\* the client; without a connected client it raises RuntimeError
JumphostManager_get_transport_channel(jm, dest_host, dest_port) ==
    IF jm.client # "connected"
    THEN [raised |-> "Jumphost not connected", events |-> <<>>]
    ELSE [raised |-> "",
          events |-> <<Event("jumphost_channel", jm.jumphost_host, dest_host)>>]

\* the jumphost hosts of the inputs; client.close() may raise for any of them
JumphostHosts == {jumphostA.host, jumphostB.host}

\* JumphostManager.disconnect: when there is a client it is closed and then
\* forgotten; bad holds the hosts whose client.close() raises, and then the
\* client is kept and the exception leaves disconnect()
JumphostManager_disconnect(jm, bad) ==
    IF jm.client = "None" THEN [obj |-> jm, events |-> <<>>, raised |-> ""]
    ELSE IF jm.jumphost_host \in bad
    THEN [obj |-> jm,
          events |-> <<Event("jumphost_close", jm.jumphost_host, <<"error">>)>>,
          raised |-> "error closing jumphost"]
    ELSE [obj |-> [jm EXCEPT !.client = "None"],
          events |-> <<Event("jumphost_close", jm.jumphost_host, <<>>)>>,
          raised |-> ""]

\* for key_class in [paramiko.RSAKey, paramiko.Ed25519Key, paramiko.ECDSAKey]
KeyClasses == <<"RSAKey", "Ed25519Key", "ECDSAKey">>

\* key_class.from_private_key_file(path), as paramiko documents it: the key,
\* IOError when the file cannot be read, SSHException when the file is not a
\* key of the class
from_private_key_file(key_class, file) ==
    IF ~file.readable THEN "IOError"
    ELSE IF key_class \in file.loads THEN "key"
    ELSE "SSHException"

\* the loop without its break: every class is tried and the last key that
\* loads is kept
RECURSIVE LoadPrivateKey_NoBreak(_, _)
LoadPrivateKey_NoBreak(file, i) ==
    IF i > Len(KeyClasses) THEN [private_key |-> "None", raised |-> "", tried |-> <<>>]
    ELSE LET r == from_private_key_file(KeyClasses[i], file)
             rest == LoadPrivateKey_NoBreak(file, i + 1)
         IN  IF r = "IOError"
             THEN [private_key |-> "None", raised |-> "IOError", tried |-> <<KeyClasses[i]>>]
             ELSE [private_key |-> IF rest.private_key = "None" /\ r = "key"
                                   THEN KeyClasses[i] ELSE rest.private_key,
                   raised |-> rest.raised,
                   tried |-> <<KeyClasses[i]>> \o rest.tried]

\* lines 52-59 from class i on: the first class that loads the file gives the
\* key and ends the loop, SSHException moves on to the next class, and any
\* other exception leaves the loop
RECURSIVE LoadPrivateKey(_, _)
LoadPrivateKey(file, i) ==
    IF i > Len(KeyClasses) THEN [private_key |-> "None", raised |-> "", tried |-> <<>>]
    ELSE LET r == from_private_key_file(KeyClasses[i], file)
         IN  IF r = "key"
             THEN [private_key |-> KeyClasses[i], raised |-> "", tried |-> <<KeyClasses[i]>>]
             ELSE IF r = "IOError"
             THEN [private_key |-> "None", raised |-> "IOError", tried |-> <<KeyClasses[i]>>]
             ELSE LET rest == LoadPrivateKey(file, i + 1)
                  IN  [rest EXCEPT !.tried = <<KeyClasses[i]>> \o @]

\* JumphostManager.connect with the key file in view: the existence check, the
\* loop over the key classes, and then the network connect with pkey set to
\* the key that was loaded
JumphostManager_connect_key(jm, file, net) ==
    IF ~file.exists THEN JumphostManager_connect(jm, "FileNotFoundError")
    ELSE LET k == LoadPrivateKey(file, 1)
             loads == [n \in 1..Len(k.tried) |->
                          Event("load_key", jm.jumphost_host, <<k.tried[n]>>)]
         IN  IF k.raised # ""
             THEN [obj |-> jm, raised |-> k.raised, events |-> loads]
             ELSE IF k.private_key = "None"
             THEN LET c == JumphostManager_connect(jm, "ValueError")
                  IN  [c EXCEPT !.events = loads \o @]
             ELSE LET c == JumphostManager_connect(jm, net)
                  IN  [c EXCEPT !.events =
                          loads \o [n \in 1..Len(@) |-> [@[n] EXCEPT !.data = <<k.private_key>>]]]

(***************************************************************************)
(* app/device_manager.py: DeviceManager.                                   *)
(***************************************************************************)
\* DeviceManager(device_creds=, jumphost_manager=, timeout=) as it is written
\* at both call sites.  The __init__ of app/device_manager.py declares only
\* device_creds and timeout, so that call raises TypeError; a DeviceManager
\* that declares the keyword takes it.  Both builds are kept; which one runs
\* is fixed from the start.
DeviceManagerInitOutcomes == {"ok", "TypeError"}

\* a manager that keeps the default of its timeout parameter
DeviceManager_DefaultTimeout(device_creds, timeout) ==
    [device_creds |-> device_creds, timeout |-> DefaultTimeout, connection |-> "None"]

DeviceManager(device_creds, timeout) ==
    [device_creds |-> device_creds, timeout |-> timeout, connection |-> "None"]

\* connection_args["start"][0]: the command that starts the session,
\* f"sshpass -p '{password}' ssh {username}@{hostname}"
StartCommand(device_creds) ==
    <<"s","s","h","p","a","s","s"," ","-","p"," ","'">> \o device_creds.password
    \o <<"'"," ","s","s","h"," ">> \o device_creds.username \o <<"@">> \o device_creds.hostname

\* connection_args, the keyword arguments of Connection(...): the session is
\* started by the start command alone, and the timeout of the manager is the
\* EXEC_TIMEOUT of its commands
ConnectionArgs(dm) ==
    [hostname |-> dm.device_creds.hostname,
     start |-> <<StartCommand(dm.device_creds)>>,
     os |-> dm.device_creds.os,
     username |-> dm.device_creds.username,
     password |-> dm.device_creds.password,
     port |-> dm.device_creds.port,
     settings |-> [EXEC_TIMEOUT |-> dm.timeout, POST_DISCONNECT_WAIT_SEC |-> 0]]

\* how Connection.connect can end
DeviceConnectOutcomes == {"ok", "ConnectionError"}

\* DeviceManager.connect: the Connection object is built from connection_args
\* and stored before it connects; connect() is called without a timeout.  The
\* event carries the start command
DeviceManager_connect(dm, out) ==
    LET start == ConnectionArgs(dm).start[1]
    IN  IF out = "ok"
        THEN [obj |-> [dm EXCEPT !.connection = "connected"], raised |-> "",
              events |-> <<Event("device_connect", dm.device_creds.hostname, start)>>]
        ELSE [obj |-> [dm EXCEPT !.connection = "unconnected"],
              raised |-> "failed to connect to device",
              events |-> <<Event("device_connect_failed", dm.device_creds.hostname, start)>>]

\* How connection.execute can end.  The device is an external collaborator:
\* here it answers commands about "b" too slowly (TimeoutError), drops the
\* session on commands about "c" and answers every other command, so that the
\* choice of the request decides which commands fail
ExecuteOutcomes(command) ==
    IF Contains(command.command, <<"b">>) THEN {"TimeoutError"}
    ELSE IF Contains(command.command, <<"c">>) THEN {"ConnectionLost"}
    ELSE {"ok"}

\* How device.parse can end: it returns the parsed structure, finds no
\* schema match, or fails in any other way (genie missing, no parser for the
\* command, an error inside the parser)
ParserOutcomes ==
    {"ok", "SchemaEmptyParserError", "SchemaMissingKeyError", "ImportError", "Exception"}

\* what device.parse(command.command, output=raw_output) returns
ParsedOutput(base, raw_output) == <<"{">> \o base \o <<"}">>

\* the text execute_command keeps of a parser failure
ParseErrorText(parser) ==
    IF parser \in {"SchemaEmptyParserError", "SchemaMissingKeyError"}
    THEN <<"Parser schema error: ", parser>>
    ELSE <<"Parser not available or failed: ", parser>>

\* a version without the connection test: the command is sent whatever the
\* state of the connection
execute_command_NoGuard(dm, command, parse, out, parser) ==
    LET full_command == get_full_command(command)
    IN  [obj |-> dm, raised |-> "",
         ret |-> PyTuple(<<RawOutput(full_command), None, None>>),
         events |-> <<CallEvent("execute", dm.device_creds.hostname, full_command, dm.timeout)>>]

\* a version whose parser failures leave execute_command as exceptions
execute_command_ParserRaises(dm, command, parse, out, parser) ==
    IF dm.connection # "connected"
    THEN [obj |-> dm, raised |-> "Device not connected", ret |-> PyTuple(<<>>), events |-> <<>>]
    ELSE LET full_command == get_full_command(command)
             sent == <<CallEvent("execute", dm.device_creds.hostname, full_command, dm.timeout)>>
             parsing == <<Event("parse", dm.device_creds.hostname, command.command)>>
         IN  IF out = "ok"
             THEN IF ~parse
                  THEN [obj |-> dm, raised |-> "",
                        ret |-> PyTuple(<<RawOutput(full_command), None, None>>), events |-> sent]
                  ELSE IF parser = "ok"
                  THEN [obj |-> dm, raised |-> "",
                        ret |-> PyTuple(<<RawOutput(full_command),
                                          ParsedOutput(command.command, RawOutput(full_command)),
                                          None>>),
                        events |-> sent \o parsing]
                  ELSE [obj |-> dm, raised |-> parser, ret |-> PyTuple(<<>>),
                        events |-> sent \o parsing]
             ELSE IF out = "TimeoutError"
             THEN [obj |-> dm, raised |-> "timeout occurred", ret |-> PyTuple(<<>>), events |-> sent]
             ELSE [obj |-> [dm EXCEPT !.connection = "unconnected"],
                   raised |-> "connection closed", ret |-> PyTuple(<<>>), events |-> sent]

\* a version that sends only the base command
execute_command_BaseOnly(dm, command, parse, out, parser) ==
    IF dm.connection # "connected"
    THEN [obj |-> dm, raised |-> "Device not connected", ret |-> PyTuple(<<>>), events |-> <<>>]
    ELSE LET full_command == command.command
             sent == <<CallEvent("execute", dm.device_creds.hostname, full_command, dm.timeout)>>
         IN  IF out = "ok"
             THEN [obj |-> dm, raised |-> "",
                   ret |-> PyTuple(<<RawOutput(full_command), None, None>>), events |-> sent]
             ELSE IF out = "TimeoutError"
             THEN [obj |-> dm, raised |-> "timeout occurred", ret |-> PyTuple(<<>>), events |-> sent]
             ELSE [obj |-> [dm EXCEPT !.connection = "unconnected"],
                   raised |-> "connection closed", ret |-> PyTuple(<<>>), events |-> sent]

\* DeviceManager.execute_command(command, parse=False): returns the tuple
\* (raw_output, parsed_output, parse_error) or raises.  With parse the parser
\* runs on the base command and the output already read; whatever it raises
\* is caught and kept as parse_error
execute_command(dm, command, parse, out, parser) ==
    IF dm.connection # "connected"
    THEN [obj |-> dm, raised |-> "Device not connected", ret |-> PyTuple(<<>>), events |-> <<>>]
    ELSE LET full_command == get_full_command(command)
             sent == <<CallEvent("execute", dm.device_creds.hostname, full_command, dm.timeout)>>
             raw_output == RawOutput(full_command)
             parsing == <<Event("parse", dm.device_creds.hostname, command.command)>>
         IN  IF out = "ok"
             THEN IF ~parse
                  THEN [obj |-> dm, raised |-> "",
                        ret |-> PyTuple(<<raw_output, None, None>>), events |-> sent]
                  ELSE IF parser = "ok"
                  THEN [obj |-> dm, raised |-> "",
                        ret |-> PyTuple(<<raw_output,
                                          ParsedOutput(command.command, raw_output), None>>),
                        events |-> sent \o parsing]
                  ELSE [obj |-> dm, raised |-> "",
                        ret |-> PyTuple(<<raw_output, None, ParseErrorText(parser)>>),
                        events |-> sent \o parsing]
             ELSE IF out = "TimeoutError"
             THEN [obj |-> dm, raised |-> "timeout occurred", ret |-> PyTuple(<<>>), events |-> sent]
             ELSE [obj |-> [dm EXCEPT !.connection = "unconnected"],
                   raised |-> "connection closed", ret |-> PyTuple(<<>>), events |-> sent]

\* How connection.disconnect() can end: here it raises on a connection that
\* never opened or was dropped, and returns on an open one
DisconnectOutcomes(dm) ==
    IF dm.connection = "unconnected" THEN {"error"} ELSE {"ok"}

\* a disconnect without the finally clause: the connection is kept when
\* connection.disconnect() raised
DeviceManager_disconnect_KeepOnError(dm) ==
    IF dm.connection # "None"
    THEN [obj |-> IF "error" \in DisconnectOutcomes(dm) THEN dm
                  ELSE [dm EXCEPT !.connection = "None"],
          events |-> <<Event("device_disconnect", dm.device_creds.hostname,
                             IF "error" \in DisconnectOutcomes(dm) THEN <<"error">> ELSE <<>>)>>]
    ELSE [obj |-> dm, events |-> <<>>]

\* DeviceManager.disconnect: an error of connection.disconnect() is logged
\* and swallowed, and the connection is forgotten in either case
DeviceManager_disconnect(dm) ==
    IF dm.connection # "None"
    THEN [obj |-> [dm EXCEPT !.connection = "None"],
          events |-> <<Event("device_disconnect", dm.device_creds.hostname,
                             IF "error" \in DisconnectOutcomes(dm) THEN <<"error">> ELSE <<>>)>>]
    ELSE [obj |-> dm, events |-> <<>>]

(***************************************************************************)
(* State.                                                                  *)
(***************************************************************************)
VARIABLES
    settings,                   \* app.config.settings, read at process start
    dm_init,                    \* how DeviceManager(..., jumphost_manager=...) ends in this build
    offered,                    \* the raw body or arguments the caller sent
    entry,                      \* the handler that is running: "none", "http" or "mcp"
    pc,                         \* the position of the running handler
    request,                    \* the validated request the handler works on
    dev_idx,                    \* the device of `for device_creds in request.devices`
    cmd_idx,                    \* the command of `for cmd in commands`
    results,                    \* execute_commands: results
    command_results,            \* process_device: command_results (MCP tool: results)
    device_manager,             \* process_device: device_manager, NoObject when None
    device_error,               \* the exception caught by process_device, "" when none
    jumphost_manager,           \* the proxy resolved for the device: None, GlobalHandle or a key
    global_jumphost_manager,    \* execute_commands: global_jumphost_manager, NoObject when None
    device_jumphost_managers,   \* execute_commands: device_jumphost_managers, in insertion order
    pending,                    \* the exception propagating out of the handler, "" when none
    reply,                      \* what the caller receives
    wire,                       \* every network event so far, in order
    sc_raw,                     \* the keyword arguments given to ShowCommand(...)
    sc_pc,                      \* "off", "new", "constructed" or "full"
    sc_result,                  \* what ShowCommand(...) gave: the object or the ValidationError
    sc_full,                    \* what get_full_command() returned, None before the call
    dc_raw,                     \* the keyword arguments given to DeviceCredentials(...)
    dc_pc,                      \* "off", "new" or "constructed"
    dc_result,                  \* what DeviceCredentials(...) gave: the object or the ValidationError
    xc_call,                    \* the receiver and the arguments of execute_command(...)
    xc_pc,                      \* "off", "called" or "returned"
    xc_result,                  \* what execute_command(...) gave: the tuple or the exception
    tj_manager,                 \* test_jumphost: jumphost_manager, NoObject when None or unbound
    ss_dm,                      \* a DeviceManager whose methods are called, NoObject when none
    ss_calls,                   \* the calls made on it so far, with what they did
    kl_jm,                      \* a JumphostManager whose connect() is called, NoObject when none
    kl_file,                    \* the file at its jumphost_key_path, NoObject when none
    kl_calls                    \* the calls made on it so far, with what they did

handler_vars ==
    <<settings, dm_init, offered, entry, pc, request, dev_idx, cmd_idx, results, command_results,
      device_manager, device_error, jumphost_manager, global_jumphost_manager,
      device_jumphost_managers, pending, reply, wire>>

sc_vars == <<sc_raw, sc_pc, sc_result, sc_full>>

dc_vars == <<dc_raw, dc_pc, dc_result>>

xc_vars == <<xc_call, xc_pc, xc_result>>

tj_vars == <<tj_manager>>

ss_vars == <<ss_dm, ss_calls>>

kl_vars == <<kl_jm, kl_file, kl_calls>>

vars == <<handler_vars, sc_vars, dc_vars, xc_vars, tj_vars, ss_vars, kl_vars>>

\* app/config.py: the jumphost settings are unset unless the environment sets them
SettingsIncomplete ==
    [jumphost_host |-> None, jumphost_port |-> DefaultPort,
     jumphost_username |-> None, jumphost_key_path |-> None]

SettingsComplete ==
    [jumphost_host |-> jumphostA.host, jumphost_port |-> jumphostA.port,
     jumphost_username |-> jumphostA.username, jumphost_key_path |-> jumphostA.key_path]

\* the host and the user are set, JUMPHOST_KEY_PATH is not
SettingsNoKeyPath ==
    [SettingsComplete EXCEPT !.jumphost_key_path = None]

NoRawRequest ==
    [devices |-> <<>>, commands |-> <<>>, use_jumphost |-> FALSE, timeout |-> 0,
     output_format |-> DefaultOutputFormat]

NoRequest ==
    [devices |-> <<>>, commands |-> <<>>, use_jumphost |-> FALSE, timeout |-> 0,
     output_format |-> DefaultOutputFormat]

NoReply == [kind |-> "none", status |-> 0, body |-> ShowCommandResponse(<<>>), text |-> ""]

\* no ShowCommand is under construction
NoShowCommand == [ok |-> FALSE, value |-> None, error |-> "", pattern |-> 0]

\* no DeviceCredentials is under construction
NoDeviceCredentials == [ok |-> FALSE, value |-> None, error |-> ""]

\* no handler is running
HandlersIdle ==
    /\ offered = NoRawRequest
    /\ entry = "none"
    /\ pc = "idle"
    /\ request = NoRequest
    /\ dev_idx = 0
    /\ cmd_idx = 0
    /\ results = <<>>
    /\ command_results = <<>>
    /\ device_manager = NoObject
    /\ device_error = ""
    /\ jumphost_manager = None
    /\ global_jumphost_manager = NoObject
    /\ device_jumphost_managers = <<>>
    /\ pending = ""
    /\ reply = NoReply
    /\ wire = <<>>

Init ==
    /\ settings \in {SettingsIncomplete, SettingsNoKeyPath, SettingsComplete}
    /\ dm_init \in DeviceManagerInitOutcomes
    /\ HandlersIdle
    /\ sc_raw = RawCommand(<<>>, None, None)
    /\ sc_pc = "off"
    /\ sc_result = NoShowCommand
    /\ sc_full = None
    /\ dc_raw = NoObject
    /\ dc_pc = "off"
    /\ dc_result = NoDeviceCredentials
    /\ xc_call = NoObject
    /\ xc_pc = "off"
    /\ xc_result = NoObject
    /\ tj_manager = NoObject
    /\ ss_dm = NoObject
    /\ ss_calls = <<>>
    /\ kl_jm = NoObject
    /\ kl_file = NoObject
    /\ kl_calls = <<>>

\* all([settings.jumphost_host, settings.jumphost_username, settings.jumphost_key_path])
SettingsAll ==
    /\ settings.jumphost_host \notin {None, <<>>}
    /\ settings.jumphost_username \notin {None, <<>>}
    /\ settings.jumphost_key_path \notin {None, <<>>}

(***************************************************************************)
(* app/main.py: POST /api/v1/execute.                                      *)
(***************************************************************************)
\* The framework builds the ShowCommandRequest from the body before the
\* handler runs; a body that does not validate is answered with the
\* validation error and execute_commands is never entered.
HttpRejected(raw) ==
    /\ pc = "idle"
    /\ offered' = raw
    /\ ~ShowCommandRequest(raw).ok
    /\ entry' = "http"
    /\ reply' = [NoReply EXCEPT !.kind = "validation_error", !.status = 422]
    /\ pc' = "done"
    /\ UNCHANGED <<kl_vars, ss_vars, tj_vars, xc_vars, dc_vars, sc_vars, settings, dm_init, request, dev_idx, cmd_idx, results, command_results,
                   device_manager, device_error, jumphost_manager,
                   global_jumphost_manager, device_jumphost_managers, pending, wire>>

\* execute_commands is entered with the validated request (lines 154-164)
HttpAccepted(raw) ==
    /\ pc = "idle"
    /\ offered' = raw
    /\ ShowCommandRequest(raw).ok
    /\ entry' = "http"
    /\ request' = ShowCommandRequest(raw).value
    /\ results' = <<>>
    /\ global_jumphost_manager' = NoObject
    /\ device_jumphost_managers' = <<>>
    /\ pc' = "ec_global"
    /\ UNCHANGED <<kl_vars, ss_vars, tj_vars, xc_vars, dc_vars, sc_vars, settings, dm_init, dev_idx, cmd_idx, command_results, device_manager,
                   device_error, jumphost_manager, pending, reply, wire>>

\* lines 168, 191: no global jumphost is requested
EcNoGlobalJumphost ==
    /\ pc = "ec_global"
    /\ ~request.use_jumphost
    /\ dev_idx' = 1
    /\ pc' = "ec_loop"
    /\ UNCHANGED <<kl_vars, ss_vars, tj_vars, xc_vars, dc_vars, sc_vars, settings, dm_init, offered, entry, request, cmd_idx, results, command_results,
                   device_manager, device_error, jumphost_manager,
                   global_jumphost_manager, device_jumphost_managers, pending, reply, wire>>

\* the missing configuration is skipped and the devices are processed
EcGlobalIncomplete_Fallback ==
    /\ pc = "ec_global"
    /\ request.use_jumphost
    /\ ~SettingsAll
    /\ dev_idx' = 1
    /\ pc' = "ec_loop"
    /\ UNCHANGED <<kl_vars, ss_vars, tj_vars, xc_vars, dc_vars, sc_vars, settings, dm_init, offered, entry, request, cmd_idx, results, command_results,
                   device_manager, device_error, jumphost_manager,
                   global_jumphost_manager, device_jumphost_managers, pending, reply, wire>>

\* lines 168-179: the global jumphost is requested but not configured
EcGlobalIncomplete ==
    /\ pc = "ec_global"
    /\ request.use_jumphost
    /\ ~SettingsAll
    /\ pending' = "HTTPException"
    /\ pc' = "ec_finally"
    /\ UNCHANGED <<kl_vars, ss_vars, tj_vars, xc_vars, dc_vars, sc_vars, settings, dm_init, offered, entry, request, dev_idx, cmd_idx, results, command_results,
                   device_manager, device_error, jumphost_manager,
                   global_jumphost_manager, device_jumphost_managers, reply, wire>>

\* lines 181-188: the global jumphost is created and connected
EcGlobalConnect(out) ==
    /\ pc = "ec_global"
    /\ request.use_jumphost
    /\ SettingsAll
    /\ LET jm == JumphostManager(settings.jumphost_host, settings.jumphost_port,
                                 settings.jumphost_username, settings.jumphost_key_path)
           c  == JumphostManager_connect(jm, out)
       IN  /\ global_jumphost_manager' = Some(c.obj)
           /\ wire' = wire \o c.events
           /\ pending' = c.raised
           /\ pc' = IF c.raised = "" THEN "ec_loop" ELSE "ec_finally"
    /\ dev_idx' = 1
    /\ UNCHANGED <<kl_vars, ss_vars, tj_vars, xc_vars, dc_vars, sc_vars, settings, dm_init, offered, entry, request, cmd_idx, results, command_results,
                   device_manager, device_error, jumphost_manager,
                   device_jumphost_managers, reply>>

\* the handle of global_jumphost_manager
GlobalHandle == <<"global">>

\* device_key = f"{host}:{port}:{username}"
DeviceKey(jh) == <<jh.host, jh.port, jh.username>>

\* a loop that never looks the key up
HasKey_Never(managers, key) == FALSE

\* device_key in device_jumphost_managers
HasKey(managers, key) == \E i \in 1..Len(managers) : managers[i].key = key

\* lines 191-215, per-device branch: the device carries its own jumphost
\* configuration and its manager is already in the dictionary
EcResolveCached ==
    /\ pc = "ec_loop"
    /\ dev_idx <= Len(request.devices)
    /\ request.devices[dev_idx].jumphost # NoObject
    /\ LET key == DeviceKey(request.devices[dev_idx].jumphost[1])
       IN  /\ HasKey(device_jumphost_managers, key)
           /\ jumphost_manager' = key
    /\ pc' = "pd_create"
    /\ UNCHANGED <<kl_vars, ss_vars, tj_vars, xc_vars, dc_vars, sc_vars, settings, dm_init, offered, entry, request, dev_idx, cmd_idx, results, command_results,
                   device_manager, device_error, global_jumphost_manager,
                   device_jumphost_managers, pending, reply, wire>>

\* lines 196-210: the manager of the device's jumphost is created, stored and
\* connected; an exception of connect() leaves the loop and the try block
EcResolveConnect(out) ==
    /\ pc = "ec_loop"
    /\ dev_idx <= Len(request.devices)
    /\ request.devices[dev_idx].jumphost # NoObject
    /\ LET jh  == request.devices[dev_idx].jumphost[1]
           key == DeviceKey(jh)
           c   == JumphostManager_connect(
                      JumphostManager(jh.host, jh.port, jh.username, jh.key_path), out)
       IN  /\ ~HasKey(device_jumphost_managers, key)
           /\ device_jumphost_managers' =
                  Append(device_jumphost_managers, [key |-> key, manager |-> c.obj])
           /\ wire' = wire \o c.events
           /\ pending' = c.raised
           /\ jumphost_manager' = IF c.raised = "" THEN key ELSE jumphost_manager
           /\ pc' = IF c.raised = "" THEN "pd_create" ELSE "ec_finally"
    /\ UNCHANGED <<kl_vars, ss_vars, tj_vars, xc_vars, dc_vars, sc_vars, settings, dm_init, offered, entry, request, dev_idx, cmd_idx, results, command_results,
                   device_manager, device_error, global_jumphost_manager, reply>>

\* a loop without the elif branch: a device without its own jumphost is
\* always reached directly
EcResolveDefault_Direct ==
    /\ pc = "ec_loop"
    /\ dev_idx <= Len(request.devices)
    /\ request.devices[dev_idx].jumphost = NoObject
    /\ jumphost_manager' = None
    /\ pc' = "pd_create"
    /\ UNCHANGED <<kl_vars, ss_vars, tj_vars, xc_vars, dc_vars, sc_vars, settings, dm_init, offered, entry, request, dev_idx, cmd_idx, results, command_results,
                   device_manager, device_error, global_jumphost_manager,
                   device_jumphost_managers, pending, reply, wire>>

\* lines 212-215 and 193: the global jumphost, or no proxy
EcResolveDefault ==
    /\ pc = "ec_loop"
    /\ dev_idx <= Len(request.devices)
    /\ request.devices[dev_idx].jumphost = NoObject
    /\ jumphost_manager' = IF request.use_jumphost THEN GlobalHandle ELSE None
    /\ pc' = "pd_create"
    /\ UNCHANGED <<kl_vars, ss_vars, tj_vars, xc_vars, dc_vars, sc_vars, settings, dm_init, offered, entry, request, dev_idx, cmd_idx, results, command_results,
                   device_manager, device_error, global_jumphost_manager,
                   device_jumphost_managers, pending, reply, wire>>

(***************************************************************************)
(* app/main.py: process_device.                                            *)
(***************************************************************************)
\* a device counted as failed as soon as one of its commands failed
ProcessDeviceReturn_AnyCommandFails(hostname, dm_opt, error, cmd_results) ==
    LET d == IF dm_opt = NoObject THEN [obj |-> None, events |-> <<>>]
             ELSE DeviceManager_disconnect(dm_opt[1])
        failed == \E j \in 1..Len(cmd_results) : ~cmd_results[j].success
    IN  [result |-> IF error = "" /\ ~failed
                    THEN DeviceResult(hostname, TRUE, cmd_results, NoObject)
                    ELSE DeviceResult(hostname, FALSE, cmd_results,
                                      Some(IF error = "" THEN "command failed" ELSE error)),
         events |-> d.events]

\* a failed device reported without its error
ProcessDeviceReturn_NoError(hostname, dm_opt, error, cmd_results) ==
    LET d == IF dm_opt = NoObject THEN [obj |-> None, events |-> <<>>]
             ELSE DeviceManager_disconnect(dm_opt[1])
    IN  [result |-> DeviceResult(hostname, error = "", cmd_results, NoObject),
         events |-> d.events]

\* a process_device that disconnects at the end of the try block and not in
\* a finally block: a failed device is never disconnected
ProcessDeviceReturn_NoDisconnectOnFailure(hostname, dm_opt, error, cmd_results) ==
    LET d == IF dm_opt = NoObject \/ error # "" THEN [obj |-> None, events |-> <<>>]
             ELSE DeviceManager_disconnect(dm_opt[1])
    IN  [result |-> IF error = ""
                    THEN DeviceResult(hostname, TRUE, cmd_results, NoObject)
                    ELSE DeviceResult(hostname, FALSE, cmd_results, Some(error)),
         events |-> d.events]

\* what process_device returns, and the finally block before it (lines 296-317)
ProcessDeviceReturn(hostname, dm_opt, error, cmd_results) ==
    LET d == IF dm_opt = NoObject THEN [obj |-> None, events |-> <<>>]
             ELSE DeviceManager_disconnect(dm_opt[1])
    IN  [result |-> IF error = ""
                    THEN DeviceResult(hostname, TRUE, cmd_results, NoObject)
                    ELSE DeviceResult(hostname, FALSE, cmd_results, Some(error)),
         events |-> d.events]

\* lines 264-273 and 302-309: DeviceManager(...) raised; the result is returned
\* with device_manager still None
PdCreateRaises ==
    /\ pc = "pd_create"
    /\ dm_init = "TypeError"
    /\ LET r == ProcessDeviceReturn(request.devices[dev_idx].hostname, NoObject,
                    "DeviceManager.__init__() got an unexpected keyword argument", <<>>)
       IN  /\ results' = Append(results, r.result)
           /\ wire' = wire \o r.events
    /\ dev_idx' = dev_idx + 1
    /\ pc' = "ec_loop"
    /\ UNCHANGED <<kl_vars, ss_vars, tj_vars, xc_vars, dc_vars, sc_vars, settings, dm_init, offered, entry, request, cmd_idx, command_results, device_manager,
                   device_error, jumphost_manager, global_jumphost_manager,
                   device_jumphost_managers, pending, reply>>

\* lines 264-273: the DeviceManager is created
PdCreate ==
    /\ pc = "pd_create"
    /\ dm_init = "ok"
    /\ device_manager' = Some(DeviceManager(request.devices[dev_idx], request.timeout))
    /\ command_results' = <<>>
    /\ device_error' = ""
    /\ pc' = "pd_connect"
    /\ UNCHANGED <<kl_vars, ss_vars, tj_vars, xc_vars, dc_vars, sc_vars, settings, dm_init, offered, entry, request, dev_idx, cmd_idx, results,
                   jumphost_manager, global_jumphost_manager,
                   device_jumphost_managers, pending, reply, wire>>

\* a process_device without the outer except: the exception of connect()
\* leaves process_device and the device loop
PdConnect_Propagate(out) ==
    /\ pc = "pd_connect"
    /\ LET c == DeviceManager_connect(device_manager[1], out)
       IN  /\ device_manager' = Some(c.obj)
           /\ wire' = wire \o c.events
           /\ pending' = c.raised
           /\ pc' = IF c.raised # "" THEN "ec_finally"
                    ELSE IF Len(request.commands) > 0 THEN "pd_exec" ELSE "pd_return"
    /\ cmd_idx' = 1
    /\ UNCHANGED <<kl_vars, ss_vars, tj_vars, xc_vars, dc_vars, sc_vars, settings, dm_init, offered, entry, request, dev_idx, results, command_results,
                   device_error, jumphost_manager, global_jumphost_manager,
                   device_jumphost_managers, reply>>

\* line 276: device_manager.connect()
PdConnect(out) ==
    /\ pc = "pd_connect"
    /\ LET c == DeviceManager_connect(device_manager[1], out)
       IN  /\ device_manager' = Some(c.obj)
           /\ wire' = wire \o c.events
           /\ device_error' = c.raised
           /\ pc' = IF c.raised = "" /\ Len(request.commands) > 0 THEN "pd_exec" ELSE "pd_return"
    /\ cmd_idx' = 1
    /\ UNCHANGED <<kl_vars, ss_vars, tj_vars, xc_vars, dc_vars, sc_vars, settings, dm_init, offered, entry, request, dev_idx, results, command_results,
                   jumphost_manager, global_jumphost_manager,
                   device_jumphost_managers, pending, reply>>

\* a loop body that lets the exception of a command leave the loop
CommandStep_Propagate(dm, cmd, out) ==
    LET x == execute_command(dm, cmd, FALSE, out, "ok")
        good == CommandResult(get_full_command(cmd), x.ret, TRUE, NoObject)
    IN  IF x.raised = "" /\ good.ok
        THEN [obj |-> x.obj, events |-> x.events, appended |-> <<good.value>>, escaped |-> ""]
        ELSE [obj |-> x.obj, events |-> x.events, appended |-> <<>>,
              escaped |-> IF x.raised # "" THEN x.raised ELSE good.error]

\* lines 280-294, one pass of the loop body: the command is executed and a
\* CommandResult is appended; an exception of execute_command or of the
\* CommandResult construction is caught and recorded as a failed command
CommandStep(dm, cmd, out) ==
    LET x == execute_command(dm, cmd, FALSE, out, "ok")
        good == CommandResult(get_full_command(cmd), x.ret, TRUE, NoObject)
        caught == IF x.raised # "" THEN x.raised ELSE good.error
        bad == CommandResult(get_full_command(cmd), PyStr(<<>>), FALSE, Some(caught))
    IN  [obj |-> x.obj, events |-> x.events,
         appended |-> IF x.raised = "" /\ good.ok THEN <<good.value>> ELSE <<bad.value>>,
         escaped |-> ""]

\* lines 279-294: the next command of the loop
PdExecute(out) ==
    /\ pc = "pd_exec"
    /\ cmd_idx <= Len(request.commands)
    /\ LET st == CommandStep(device_manager[1], request.commands[cmd_idx], out)
       IN  /\ device_manager' = Some(st.obj)
           /\ wire' = wire \o st.events
           /\ command_results' = command_results \o st.appended
           /\ device_error' = st.escaped
           /\ pc' = IF st.escaped = "" /\ cmd_idx < Len(request.commands)
                    THEN "pd_exec" ELSE "pd_return"
    /\ cmd_idx' = cmd_idx + 1
    /\ UNCHANGED <<kl_vars, ss_vars, tj_vars, xc_vars, dc_vars, sc_vars, settings, dm_init, offered, entry, request, dev_idx, results,
                   jumphost_manager, global_jumphost_manager,
                   device_jumphost_managers, pending, reply>>

\* results.insert(0, device_result) in place of results.append(device_result)
PdReturn_Prepend ==
    /\ pc = "pd_return"
    /\ LET r == ProcessDeviceReturn(request.devices[dev_idx].hostname, device_manager,
                                    device_error, command_results)
       IN  /\ results' = <<r.result>> \o results
           /\ wire' = wire \o r.events
    /\ device_manager' = NoObject
    /\ command_results' = <<>>
    /\ device_error' = ""
    /\ dev_idx' = dev_idx + 1
    /\ pc' = "ec_loop"
    /\ UNCHANGED <<kl_vars, ss_vars, tj_vars, xc_vars, dc_vars, sc_vars, settings, dm_init, offered, entry, request, cmd_idx, jumphost_manager,
                   global_jumphost_manager, device_jumphost_managers, pending, reply>>

\* a process_device whose finally block also disconnects the jumphost manager
\* it was given
PdReturn_ClosesProxy ==
    /\ pc = "pd_return"
    /\ LET r == ProcessDeviceReturn(request.devices[dev_idx].hostname, device_manager,
                                    device_error, command_results)
           g == IF jumphost_manager = GlobalHandle /\ global_jumphost_manager # NoObject
                THEN LET d == JumphostManager_disconnect(global_jumphost_manager[1], {})
                     IN  [obj |-> Some(d.obj), events |-> d.events]
                ELSE [obj |-> global_jumphost_manager, events |-> <<>>]
           own == {n \in 1..Len(device_jumphost_managers) :
                      device_jumphost_managers[n].key = jumphost_manager}
           closed == [n \in 1..Len(device_jumphost_managers) |->
                         IF n \in own
                         THEN [device_jumphost_managers[n] EXCEPT
                                  !.manager = JumphostManager_disconnect(@, {}).obj]
                         ELSE device_jumphost_managers[n]]
           sent == IF own = {} THEN <<>>
                   ELSE JumphostManager_disconnect(
                            device_jumphost_managers[CHOOSE n \in own : TRUE].manager, {}).events
       IN  /\ results' = Append(results, r.result)
           /\ wire' = wire \o r.events \o g.events \o sent
           /\ global_jumphost_manager' = g.obj
           /\ device_jumphost_managers' = closed
    /\ device_manager' = NoObject
    /\ command_results' = <<>>
    /\ device_error' = ""
    /\ dev_idx' = dev_idx + 1
    /\ pc' = "ec_loop"
    /\ UNCHANGED <<kl_vars, ss_vars, tj_vars, xc_vars, dc_vars, sc_vars, settings, dm_init,
                   offered, entry, request, cmd_idx, jumphost_manager, pending, reply>>

\* lines 296-317 and 224: the DeviceResult is built, the finally block
\* disconnects the device, and execute_commands appends the result
PdReturn ==
    /\ pc = "pd_return"
    /\ LET r == ProcessDeviceReturn(request.devices[dev_idx].hostname, device_manager,
                                    device_error, command_results)
       IN  /\ results' = Append(results, r.result)
           /\ wire' = wire \o r.events
    /\ device_manager' = NoObject
    /\ command_results' = <<>>
    /\ device_error' = ""
    /\ dev_idx' = dev_idx + 1
    /\ pc' = "ec_loop"
    /\ UNCHANGED <<kl_vars, ss_vars, tj_vars, xc_vars, dc_vars, sc_vars, settings, dm_init, offered, entry, request, cmd_idx, jumphost_manager,
                   global_jumphost_manager, device_jumphost_managers, pending, reply>>

(***************************************************************************)
(* app/main.py: the end of execute_commands.                               *)
(***************************************************************************)
\* line 191: the device loop has run through
EcLoopEnd ==
    /\ pc = "ec_loop"
    /\ dev_idx > Len(request.devices)
    /\ pc' = "ec_finally"
    /\ UNCHANGED <<kl_vars, ss_vars, tj_vars, xc_vars, dc_vars, sc_vars, settings, dm_init, offered, entry, request, dev_idx, cmd_idx, results, command_results,
                   device_manager, device_error, jumphost_manager,
                   global_jumphost_manager, device_jumphost_managers, pending, reply, wire>>

\* a loop over the dictionary without the try/except around disconnect():
\* the first error ends it
RECURSIVE DisconnectAll_StopAtError(_, _)
DisconnectAll_StopAtError(managers, bad) ==
    IF managers = <<>> THEN [managers |-> <<>>, events |-> <<>>]
    ELSE LET d    == JumphostManager_disconnect(Head(managers).manager, bad)
             rest == IF d.raised # "" THEN [managers |-> Tail(managers), events |-> <<>>]
                     ELSE DisconnectAll_StopAtError(Tail(managers), bad)
         IN  [managers |-> <<[Head(managers) EXCEPT !.manager = d.obj]>> \o rest.managers,
              events |-> d.events \o rest.events]

\* lines 234-238: disconnect() on every manager of the dictionary, in its
\* order; an error of one disconnect() is logged and the loop goes on
RECURSIVE DisconnectAll(_, _)
DisconnectAll(managers, bad) ==
    IF managers = <<>> THEN [managers |-> <<>>, events |-> <<>>]
    ELSE LET d    == JumphostManager_disconnect(Head(managers).manager, bad)
             rest == DisconnectAll(Tail(managers), bad)
         IN  [managers |-> <<[Head(managers) EXCEPT !.manager = d.obj]>> \o rest.managers,
              events |-> d.events \o rest.events]

\* lines 226-249: the finally block disconnects the global jumphost and every
\* device jumphost, swallowing the error of each disconnect(); then the
\* pending exception goes to the caller (an HTTPException with its status,
\* anything else through the global exception handler as 500), or the
\* response is built and returned
EcFinally(bad) ==
    /\ pc = "ec_finally"
    /\ LET g == IF global_jumphost_manager = NoObject
                THEN [obj |-> NoObject, events |-> <<>>]
                ELSE LET d == JumphostManager_disconnect(global_jumphost_manager[1], bad)
                     IN  [obj |-> Some(d.obj), events |-> d.events]
           all == DisconnectAll(device_jumphost_managers, bad)
       IN  /\ global_jumphost_manager' = g.obj
           /\ device_jumphost_managers' = all.managers
           /\ wire' = wire \o g.events \o all.events
    /\ reply' = IF pending = "HTTPException"
                THEN [NoReply EXCEPT !.kind = "error", !.status = 400]
                ELSE IF pending # ""
                THEN [NoReply EXCEPT !.kind = "error", !.status = 500,
                                     !.text = "Internal server error"]
                ELSE [NoReply EXCEPT !.kind = "response", !.status = 200,
                                     !.body = ShowCommandResponse(results)]
    /\ pc' = "done"
    /\ UNCHANGED <<kl_vars, ss_vars, tj_vars, xc_vars, dc_vars, sc_vars, settings, dm_init, offered, entry, request, dev_idx, cmd_idx, results, command_results,
                   device_manager, device_error, jumphost_manager, pending>>

\* the request bodies offered to POST /api/v1/execute
\* (output_format and timeout are left out, or set for one device reached
\* directly)
RawRequests ==
    {[devices |-> ds, commands |-> cs, use_jumphost |-> uj, timeout |-> DefaultTimeout,
      output_format |-> DefaultOutputFormat] :
        ds \in SeqUpTo(RawDevices, MaxDevices), cs \in SeqUpTo(RawCommands, MaxCommands),
        uj \in BOOLEAN}
    \cup
    {[devices |-> <<d>>, commands |-> cs, use_jumphost |-> FALSE, timeout |-> t,
      output_format |-> f] :
        d \in {x \in ValidRawDevices : x.jumphost = NoObject},
        cs \in SeqUpTo(RawCommands, MaxCommands), f \in OutputFormat,
        t \in {DefaultTimeout, 5}}

HttpNext ==
    \/ pc = "idle" /\ \E raw \in RawRequests : HttpRejected(raw)
    \/ pc = "idle" /\ \E raw \in RawRequests : HttpAccepted(raw)
    \/ EcNoGlobalJumphost
    \/ EcGlobalIncomplete
    \/ \E out \in JumphostConnectOutcomes : EcGlobalConnect(out)
    \/ EcResolveCached
    \/ \E out \in JumphostConnectOutcomes : EcResolveConnect(out)
    \/ EcResolveDefault
    \/ PdCreateRaises
    \/ PdCreate
    \/ \E out \in DeviceConnectOutcomes : PdConnect(out)
    \/ pc = "pd_exec" /\ \E out \in ExecuteOutcomes(request.commands[cmd_idx]) : PdExecute(out)
    \/ PdReturn
    \/ EcLoopEnd
    \/ \E bad \in SUBSET JumphostHosts : EcFinally(bad)

(***************************************************************************)
(* mcp_server.py: the execute_show_commands tool (one device, commands     *)
(* without pipe filters, the global jumphost only).                        *)
(***************************************************************************)
\* the arguments offered to the tool
McpArguments ==
    {[device |-> d, commands |-> cs, use_jumphost |-> uj, timeout |-> DefaultTimeout] :
        d \in {x \in RawDevices : x.jumphost = NoObject},
        cs \in SeqUpTo({c.command : c \in RawCommands}, MaxCommands),
        uj \in BOOLEAN}

\* ShowCommand(command=cmd_str)
McpShowCommand(cmd_str) == ShowCommand(RawCommand(cmd_str, None, None))

\* lines 166-192: the credentials are validated, then the commands one by
\* one; the first failure ends the call with a text
McpValidate(args) ==
    LET d   == DeviceCredentials(args.device)
        bad == {j \in 1..Len(args.commands) : ~McpShowCommand(args.commands[j]).ok}
    IN  IF ~d.ok THEN [ok |-> FALSE, text |-> "Validation error", value |-> NoRequest]
        ELSE IF bad # {} THEN [ok |-> FALSE, text |-> "Command validation failed", value |-> NoRequest]
        ELSE [ok |-> TRUE, text |-> "",
              value |-> [devices |-> <<d.value>>,
                         commands |-> [j \in 1..Len(args.commands) |->
                                          McpShowCommand(args.commands[j]).value],
                         use_jumphost |-> args.use_jumphost,
                         timeout |-> args.timeout]]

McpText(t) == [NoReply EXCEPT !.kind = "text", !.text = t]

McpRejected(args) ==
    /\ pc = "idle"
    /\ offered' = [devices |-> <<args.device>>,
                   commands |-> [j \in 1..Len(args.commands) |->
                                    RawCommand(args.commands[j], None, None)],
                   use_jumphost |-> args.use_jumphost, timeout |-> args.timeout]
    /\ ~McpValidate(args).ok
    /\ entry' = "mcp"
    /\ reply' = McpText(McpValidate(args).text)
    /\ pc' = "done"
    /\ UNCHANGED <<kl_vars, ss_vars, tj_vars, xc_vars, dc_vars, sc_vars, settings, dm_init, request, dev_idx, cmd_idx, results, command_results,
                   device_manager, device_error, jumphost_manager,
                   global_jumphost_manager, device_jumphost_managers, pending, wire>>

McpAccepted(args) ==
    /\ pc = "idle"
    /\ offered' = [devices |-> <<args.device>>,
                   commands |-> [j \in 1..Len(args.commands) |->
                                    RawCommand(args.commands[j], None, None)],
                   use_jumphost |-> args.use_jumphost, timeout |-> args.timeout]
    /\ McpValidate(args).ok
    /\ entry' = "mcp"
    /\ request' = McpValidate(args).value
    /\ dev_idx' = 1
    /\ pc' = "mcp_jumphost"
    /\ UNCHANGED <<kl_vars, ss_vars, tj_vars, xc_vars, dc_vars, sc_vars, settings, dm_init, cmd_idx, results, command_results, device_manager,
                   device_error, jumphost_manager, global_jumphost_manager,
                   device_jumphost_managers, pending, reply, wire>>

\* lines 195-196: no jumphost is requested
McpNoJumphost ==
    /\ pc = "mcp_jumphost"
    /\ ~request.use_jumphost
    /\ pc' = "mcp_create"
    /\ UNCHANGED <<kl_vars, ss_vars, tj_vars, xc_vars, dc_vars, sc_vars, settings, dm_init, offered, entry, request, dev_idx, cmd_idx, results, command_results,
                   device_manager, device_error, jumphost_manager,
                   global_jumphost_manager, device_jumphost_managers, pending, reply, wire>>

\* lines 196-202: the jumphost is requested but not configured
McpJumphostIncomplete ==
    /\ pc = "mcp_jumphost"
    /\ request.use_jumphost
    /\ ~SettingsAll
    /\ reply' = McpText("Jumphost requested but global configuration is incomplete")
    /\ pc' = "done"
    /\ UNCHANGED <<kl_vars, ss_vars, tj_vars, xc_vars, dc_vars, sc_vars, settings, dm_init, offered, entry, request, dev_idx, cmd_idx, results, command_results,
                   device_manager, device_error, jumphost_manager,
                   global_jumphost_manager, device_jumphost_managers, pending, wire>>

\* lines 204-210 and 265-268: the jumphost manager (held here in
\* global_jumphost_manager) is created and connected; an exception of
\* connect() is raised before the inner try block and goes straight to the
\* outer handler
McpJumphostConnect(out) ==
    /\ pc = "mcp_jumphost"
    /\ request.use_jumphost
    /\ SettingsAll
    /\ LET jm == JumphostManager(settings.jumphost_host, settings.jumphost_port,
                                 settings.jumphost_username, settings.jumphost_key_path)
           c  == JumphostManager_connect(jm, out)
       IN  /\ global_jumphost_manager' = Some(c.obj)
           /\ wire' = wire \o c.events
           /\ jumphost_manager' = GlobalHandle
           /\ reply' = IF c.raised = "" THEN reply ELSE McpText("Error executing commands")
           /\ pc' = IF c.raised = "" THEN "mcp_create" ELSE "done"
    /\ UNCHANGED <<kl_vars, ss_vars, tj_vars, xc_vars, dc_vars, sc_vars, settings, dm_init, offered, entry, request, dev_idx, cmd_idx, results, command_results,
                   device_manager, device_error, device_jumphost_managers, pending>>

\* lines 254-258: the finally block of the inner try; an exception of
\* jumphost_manager.disconnect() leaves it
McpFinally(dm_opt, jm_opt, bad) ==
    LET d == IF dm_opt = NoObject THEN [obj |-> None, events |-> <<>>]
             ELSE DeviceManager_disconnect(dm_opt[1])
        j == IF jm_opt = NoObject THEN [obj |-> NoObject, events |-> <<>>, raised |-> ""]
             ELSE LET x == JumphostManager_disconnect(jm_opt[1], bad)
                  IN  [obj |-> Some(x.obj), events |-> x.events, raised |-> x.raised]
    IN  [jumphost |-> j.obj, events |-> d.events \o j.events, raised |-> j.raised]

\* lines 216-221, 254-258, 265-268: DeviceManager(...) raised
McpCreateRaises(bad) ==
    /\ pc = "mcp_create"
    /\ dm_init = "TypeError"
    /\ LET f == McpFinally(NoObject, global_jumphost_manager, bad)
       IN  /\ global_jumphost_manager' = f.jumphost
           /\ wire' = wire \o f.events
    /\ reply' = McpText("Error executing commands")
    /\ pc' = "done"
    /\ UNCHANGED <<kl_vars, ss_vars, tj_vars, xc_vars, dc_vars, sc_vars, settings, dm_init, offered, entry, request, dev_idx, cmd_idx, results, command_results,
                   device_manager, device_error, jumphost_manager,
                   device_jumphost_managers, pending>>

\* lines 216-221: the DeviceManager is created
McpCreate ==
    /\ pc = "mcp_create"
    /\ dm_init = "ok"
    /\ device_manager' = Some(DeviceManager(request.devices[1], request.timeout))
    /\ command_results' = <<>>
    /\ pc' = "mcp_connect"
    /\ UNCHANGED <<kl_vars, ss_vars, tj_vars, xc_vars, dc_vars, sc_vars, settings, dm_init, offered, entry, request, dev_idx, cmd_idx, results, device_error,
                   jumphost_manager, global_jumphost_manager,
                   device_jumphost_managers, pending, reply, wire>>

\* line 223: device_manager.connect(); when it raises, the finally block runs
\* and the outer handler returns the error text
McpConnect(out, bad) ==
    /\ pc = "mcp_connect"
    /\ LET c == DeviceManager_connect(device_manager[1], out)
           f == McpFinally(Some(c.obj), global_jumphost_manager, bad)
       IN  IF c.raised = ""
           THEN /\ device_manager' = Some(c.obj)
                /\ wire' = wire \o c.events
                /\ pc' = IF Len(request.commands) > 0 THEN "mcp_exec" ELSE "mcp_return"
                /\ UNCHANGED <<kl_vars, ss_vars, global_jumphost_manager, reply>>
           ELSE /\ device_manager' = Some(DeviceManager_disconnect(c.obj).obj)
                /\ global_jumphost_manager' = f.jumphost
                /\ wire' = wire \o c.events \o f.events
                /\ reply' = McpText("Error executing commands")
                /\ pc' = "done"
    /\ cmd_idx' = 1
    /\ UNCHANGED <<kl_vars, ss_vars, tj_vars, xc_vars, dc_vars, sc_vars, settings, dm_init, offered, entry, request, dev_idx, results, command_results,
                   device_error, jumphost_manager, device_jumphost_managers, pending>>

\* lines 225-238, one pass of the loop body: the entry of `results`
McpCommandStep(dm, cmd, out) ==
    LET x == execute_command(dm, cmd, FALSE, out, "ok")
    IN  [obj |-> x.obj, events |-> x.events,
         appended |-> IF x.raised = ""
                      THEN [command |-> get_full_command(cmd), success |-> TRUE,
                            output |-> x.ret, error |-> NoObject]
                      ELSE [command |-> get_full_command(cmd), success |-> FALSE,
                            output |-> PyStr(<<>>), error |-> Some(x.raised)]]

\* lines 225-238: the next command of the loop
McpExecute(out) ==
    /\ pc = "mcp_exec"
    /\ cmd_idx <= Len(request.commands)
    /\ LET st == McpCommandStep(device_manager[1], request.commands[cmd_idx], out)
       IN  /\ device_manager' = Some(st.obj)
           /\ wire' = wire \o st.events
           /\ command_results' = Append(command_results, st.appended)
    /\ pc' = IF cmd_idx < Len(request.commands) THEN "mcp_exec" ELSE "mcp_return"
    /\ cmd_idx' = cmd_idx + 1
    /\ UNCHANGED <<kl_vars, ss_vars, tj_vars, xc_vars, dc_vars, sc_vars, settings, dm_init, offered, entry, request, dev_idx, results, device_error,
                   jumphost_manager, global_jumphost_manager,
                   device_jumphost_managers, pending, reply>>

\* lines 240-258: the text is formatted, the finally block disconnects the
\* device and the jumphost, and the text is returned, unless the finally
\* block raised
McpReturn(bad) ==
    /\ pc = "mcp_return"
    /\ LET f == McpFinally(device_manager, global_jumphost_manager, bad)
       IN  /\ device_manager' = Some(DeviceManager_disconnect(device_manager[1]).obj)
           /\ global_jumphost_manager' = f.jumphost
           /\ wire' = wire \o f.events
           /\ reply' = IF f.raised = "" THEN McpText("Commands executed")
                       ELSE McpText("Error executing commands")
    /\ pc' = "done"
    /\ UNCHANGED <<kl_vars, ss_vars, tj_vars, xc_vars, dc_vars, sc_vars, settings, dm_init, offered, entry, request, dev_idx, cmd_idx, results, command_results,
                   device_error, jumphost_manager, device_jumphost_managers, pending>>

McpNext ==
    \/ pc = "idle" /\ \E args \in McpArguments : McpRejected(args)
    \/ pc = "idle" /\ \E args \in McpArguments : McpAccepted(args)
    \/ McpNoJumphost
    \/ McpJumphostIncomplete
    \/ \E out \in JumphostConnectOutcomes : McpJumphostConnect(out)
    \/ \E bad \in SUBSET JumphostHosts : McpCreateRaises(bad)
    \/ McpCreate
    \/ \E out \in DeviceConnectOutcomes, bad \in SUBSET JumphostHosts : McpConnect(out, bad)
    \/ pc = "mcp_exec" /\ \E out \in ExecuteOutcomes(request.commands[cmd_idx]) : McpExecute(out)
    \/ \E bad \in SUBSET JumphostHosts : McpReturn(bad)

Next == HttpNext \/ McpNext

Spec == Init /\ [][Next]_vars

(***************************************************************************)
(* app/models.py: ShowCommand on its own.  A ShowCommand is constructed    *)
(* from keyword arguments and, when the construction succeeded,            *)
(* get_full_command() is called on it.                                     *)
(***************************************************************************)
MaxBody == 2

\* n times the character c
Repeat(c, n) == [i \in 1..n |-> c]

\* lowercase, uppercase and mixed-case show, a prefix of show, show followed
\* by a letter, show after other letters, another verb, and no verb
Verbs ==
    { <<"s","h","o","w"," ">>, <<"S","H","O","W"," ">>, <<"s","H","o","W","\t">>,
      <<"s","h","o"," ">>, <<"s","h","o","w","s"," ">>, <<"n","o","s","h","o","w"," ">>,
      <<"c","o","n","f"," ">>, <<>> }

\* a letter, a blank, and every character of DANGEROUS_PATTERNS
BodyChars == {"a", " ", ";", "\n", "\r", Backtick, "$", "|", "&", ">", "<", "!"}

\* whitespace around the command
Leads == {<<>>, <<" ">>, <<"\n">>}

\* commands at and around the length limit
LongCommands ==
    { <<"s","h","o","w"," ">> \o Repeat("a", MaxCommandLength - 5),
      <<"s","h","o","w"," ">> \o Repeat("a", MaxCommandLength - 4),
      <<" ","s","h","o","w"," ">> \o Repeat("a", MaxCommandLength - 5) \o <<"\n">>,
      <<"c","o","n","f"," ">> \o Repeat("a", MaxCommandLength - 4) }

CommandTexts ==
    {l \o v \o b : l \in Leads, v \in Verbs, b \in SeqUpTo(BodyChars, MaxBody)}
    \cup LongCommands

\* pipe options: absent, the four members, and a text that is no member
PipeOptionInputs == PipeOption \cup {None, <<"g","r","e","p">>}

\* pipe values: absent, empty, plain, with a blank, with denylisted
\* characters, with a character outside the class, with a tab, and at and
\* over the length limit
PipeValueInputs ==
    { None, <<>>, <<"x">>, <<"x"," ","y">>, <<"x",";","y">>, <<"x","|","y">>, <<"x","#">>, <<"x","\t","y">>,
      Repeat("a", MaxPipeValueLength), Repeat("a", MaxPipeValueLength + 1) }

\* the keyword arguments offered to ShowCommand(...): every command text
\* without a filter, and some commands with every filter
ShowCommandInputs ==
    {RawCommand(c, None, None) : c \in CommandTexts}
    \cup {RawCommand(c, o, v) :
            c \in {<<"s","h","o","w"," ","a">>, <<" ","S","h","o","w"," ","a","\n">>,
                   <<"c","o","n","f"," ","t">>},
            o \in PipeOptionInputs, v \in PipeValueInputs}

InitShowCommand ==
    /\ settings = SettingsIncomplete
    /\ dm_init = "ok"
    /\ HandlersIdle
    /\ sc_raw \in ShowCommandInputs
    /\ sc_pc = "new"
    /\ sc_result = NoShowCommand
    /\ sc_full = None
    /\ dc_raw = NoObject
    /\ dc_pc = "off"
    /\ dc_result = NoDeviceCredentials
    /\ xc_call = NoObject
    /\ xc_pc = "off"
    /\ xc_result = NoObject
    /\ tj_manager = NoObject
    /\ ss_dm = NoObject
    /\ ss_calls = <<>>
    /\ kl_jm = NoObject
    /\ kl_file = NoObject
    /\ kl_calls = <<>>

\* ShowCommand(command=..., pipe_option=..., pipe_value=...)
Construct ==
    /\ sc_pc = "new"
    /\ sc_result' = ShowCommand(sc_raw)
    /\ sc_pc' = "constructed"
    /\ UNCHANGED <<kl_vars, ss_vars, tj_vars, handler_vars, xc_vars, dc_vars, sc_raw, sc_full>>

\* cmd.get_full_command() on the constructed object
GetFullCommand ==
    /\ sc_pc = "constructed"
    /\ sc_result.ok
    /\ sc_full' = get_full_command(sc_result.value)
    /\ sc_pc' = "full"
    /\ UNCHANGED <<kl_vars, ss_vars, tj_vars, handler_vars, xc_vars, dc_vars, sc_raw, sc_result>>

NextShowCommand == Construct \/ GetFullCommand

SpecShowCommand == InitShowCommand /\ [][NextShowCommand]_vars

(***************************************************************************)
(* app/models.py: DeviceCredentials on its own.  A DeviceCredentials is    *)
(* constructed from keyword arguments, some of which may be left out.      *)
(***************************************************************************)
MaxHostname == 3

\* the keyword arguments without one of them
Without(kw, name) == [f \in (DOMAIN kw) \ {name} |-> kw[f]]

\* port: int = Field(default=22): an omitted port is 22
WithDefaultPort(kw) ==
    IF "port" \in DOMAIN kw THEN kw
    ELSE [f \in (DOMAIN kw) \cup {"port"} |-> IF f = "port" THEN DefaultPort ELSE kw[f]]

\* DeviceCredentials(**kw): the defaults are filled in, in the device and in
\* its jumphost configuration, and the validators run
DeviceCredentialsKw(kw) ==
    LET full == WithDefaultPort(kw)
    IN  DeviceCredentials(
            [full EXCEPT !.jumphost = IF @ = NoObject THEN @ ELSE Some(WithDefaultPort(@[1]))])

\* letters, a digit, the three marks of the hostname grammar, a newline
\* and a character outside the grammar
HostnameChars == {"a", "Z", "1", ".", ":", "-", "\n", "_"}

\* short hostnames of every shape, and hostnames around the length limit
HostnameInputs ==
    SeqUpTo(HostnameChars, MaxHostname)
    \cup { Repeat("a", MaxHostnameLength), Repeat("a", MaxHostnameLength + 1),
           Repeat("a", MaxHostnameLength - 1) \o <<"\n">> }

\* every spelling of junos in upper and lower case
JunosVariants == {t \in [1..5 -> {"j","J","u","U","n","N","o","O","s","S"}] : Lower(t) = kw_junos}

\* the five families, junos in every case, a family in upper case, an
\* unknown family and the empty text
OsInputs ==
    DeviceOS \cup JunosVariants
    \cup { <<"I","O","S">>, <<"e","o","s">>, <<"j","u","n","o","s","x">>, <<>> }

\* ports at and around the limits
PortInputs == {-1, 0, MinPort, DefaultPort, 8022, MaxPort, MaxPort + 1, 100000}

\* the keyword arguments offered to DeviceCredentials(...): one field is
\* varied at a time, the port also inside the jumphost configuration
CredentialInputs ==
    {RawDevice(h, os_ios, DefaultPort, NoObject) : h \in HostnameInputs}
    \cup {RawDevice(<<"r","1">>, o, DefaultPort, NoObject) : o \in OsInputs}
    \cup {RawDevice(<<"r","1">>, os_ios, p, NoObject) : p \in PortInputs}
    \cup {RawDevice(<<"r","1">>, os_ios, DefaultPort, Some([jumphostA EXCEPT !.port = p])) :
            p \in PortInputs}
    \cup { Without(RawDevice(<<"r","1">>, os_ios, DefaultPort, NoObject), "port"),
           RawDevice(<<"r","1">>, os_ios, DefaultPort, Some(Without(jumphostA, "port"))) }

InitDeviceCredentials ==
    /\ settings = SettingsIncomplete
    /\ dm_init = "ok"
    /\ HandlersIdle
    /\ sc_raw = RawCommand(<<>>, None, None)
    /\ sc_pc = "off"
    /\ sc_result = NoShowCommand
    /\ sc_full = None
    /\ dc_raw \in {Some(kw) : kw \in CredentialInputs}
    /\ dc_pc = "new"
    /\ dc_result = NoDeviceCredentials
    /\ xc_call = NoObject
    /\ xc_pc = "off"
    /\ xc_result = NoObject
    /\ tj_manager = NoObject
    /\ ss_dm = NoObject
    /\ ss_calls = <<>>
    /\ kl_jm = NoObject
    /\ kl_file = NoObject
    /\ kl_calls = <<>>

\* DeviceCredentials(hostname=..., port=..., username=..., password=..., os=...)
ConstructCredentials ==
    /\ dc_pc = "new"
    /\ dc_result' = DeviceCredentialsKw(dc_raw[1])
    /\ dc_pc' = "constructed"
    /\ UNCHANGED <<kl_vars, ss_vars, tj_vars, handler_vars, xc_vars, sc_vars, dc_raw>>

NextDeviceCredentials == ConstructCredentials

SpecDeviceCredentials == InitDeviceCredentials /\ [][NextDeviceCredentials]_vars

(***************************************************************************)
(* DeviceManager.execute_command as a function of its receiver, its        *)
(* arguments and what the device and the parser do.                        *)
(***************************************************************************)
\* the commands of the calls: the request commands, and a command that the
\* device answers with a pipe filter and without
ExecuteCommandInputs ==
    ValidRawCommands \cup
    { RawCommand(<<"s","h","o","w"," ","a">>, kw_include, <<"x">>),
      RawCommand(<<"s","h","o","w"," ","v">>, None, None) }

\* the calls: each device with its connection never opened, opened and
\* failed or dropped, or open, each command, with and without parse
ExecuteCommandCalls ==
    UNION { { [dm |-> [DeviceManager(DeviceCredentials(d).value, DefaultTimeout)
                           EXCEPT !.connection = c],
               command |-> ShowCommand(r).value, parse |-> p, out |-> o, parser |-> q] :
              o \in ExecuteOutcomes(ShowCommand(r).value), q \in ParserOutcomes } :
            d \in ValidRawDevices, c \in {"None", "unconnected", "connected"},
            r \in ExecuteCommandInputs, p \in BOOLEAN }

InitExecuteCommand ==
    /\ settings = SettingsIncomplete
    /\ dm_init = "ok"
    /\ HandlersIdle
    /\ sc_raw = RawCommand(<<>>, None, None)
    /\ sc_pc = "off"
    /\ sc_result = NoShowCommand
    /\ sc_full = None
    /\ dc_raw = NoObject
    /\ dc_pc = "off"
    /\ dc_result = NoDeviceCredentials
    /\ xc_call \in {Some(c) : c \in ExecuteCommandCalls}
    /\ xc_pc = "called"
    /\ xc_result = NoObject
    /\ tj_manager = NoObject
    /\ ss_dm = NoObject
    /\ ss_calls = <<>>
    /\ kl_jm = NoObject
    /\ kl_file = NoObject
    /\ kl_calls = <<>>

\* device_manager.execute_command(command, parse)
ExecuteCommand ==
    /\ xc_pc = "called"
    /\ LET c == xc_call[1]
       IN  xc_result' = Some(execute_command(c.dm, c.command, c.parse, c.out, c.parser))
    /\ xc_pc' = "returned"
    /\ UNCHANGED <<kl_vars, ss_vars, tj_vars, handler_vars, sc_vars, dc_vars, xc_call>>

NextExecuteCommand == ExecuteCommand

SpecExecuteCommand == InitExecuteCommand /\ [][NextExecuteCommand]_vars

(***************************************************************************)
(* The jumphost test: POST /api/v1/jumphost/test of app/main.py and the    *)
(* test_jumphost tool of mcp_server.py.                                    *)
(***************************************************************************)
\* arguments.get("port", 22)
McpDefaultPort == 22

\* how JumphostManager.connect can end in the test: as JumphostConnectOutcomes,
\* or with a key file that none of the key classes loads
JumphostTestOutcomes == JumphostConnectOutcomes \cup {"ValueError"}

\* the jumphost settings offered to the test: the two hosts, two ports and two
\* key files, a port out of range and an empty host
JumphostTestConfigs ==
    { [host |-> h, port |-> p, username |-> txt_u, key_path |-> k] :
        h \in JumphostHosts, p \in {DefaultPort, 8022}, k \in {txt_key, <<"m">>} }
    \cup { [jumphostA EXCEPT !.port = 0], [jumphostA EXCEPT !.host = <<>>] }

\* the bodies offered to POST /api/v1/jumphost/test
JumphostTestRequests == { [jumphost |-> c] : c \in JumphostTestConfigs }

\* the arguments offered to the tool: the same settings (the tool validates
\* none), and those with the port or a required key left out
JumphostTestArguments ==
    JumphostTestConfigs
    \cup { Without(c, "port") : c \in JumphostTestConfigs }
    \cup { Without(jumphostA, f) : f \in {"host", "username", "key_path"} }

\* JumphostTestResult(host=, port=, username=, success=, message=, error=)
\* as the three return statements of test_jumphost fill it
JumphostTestResult(config, success, message, error) ==
    [host |-> config.host, port |-> config.port, username |-> config.username,
     success |-> success, message |-> message, error |-> error]

\* the body is refused by the request model
TjHttpRejected(raw) ==
    /\ pc = "idle"
    /\ offered' = raw
    /\ ~JumphostConfig(Some(raw.jumphost)).ok
    /\ entry' = "http_test"
    /\ reply' = [NoReply EXCEPT !.kind = "validation_error", !.status = 422]
    /\ pc' = "done"
    /\ UNCHANGED <<kl_vars, ss_vars, tj_vars, xc_vars, dc_vars, sc_vars, settings, dm_init, request, dev_idx, cmd_idx,
                   results, command_results, device_manager, device_error, jumphost_manager,
                   global_jumphost_manager, device_jumphost_managers, pending, wire>>

\* lines 80-83: test_jumphost is entered, jumphost_manager = None
TjHttpAccepted(raw) ==
    /\ pc = "idle"
    /\ offered' = raw
    /\ JumphostConfig(Some(raw.jumphost)).ok
    /\ entry' = "http_test"
    /\ tj_manager' = NoObject
    /\ pending' = ""
    /\ pc' = "tj_connect"
    /\ UNCHANGED <<kl_vars, ss_vars, xc_vars, dc_vars, sc_vars, settings, dm_init, request, dev_idx, cmd_idx,
                   results, command_results, device_manager, device_error, jumphost_manager,
                   global_jumphost_manager, device_jumphost_managers, reply, wire>>

\* lines 85-95: the manager is created and connect() is called; what it
\* raises is on its way to the except clauses
TjHttpConnect(out) ==
    /\ pc = "tj_connect"
    /\ entry = "http_test"
    /\ LET config == offered.jumphost
           c == JumphostManager_connect(
                    JumphostManager(config.host, config.port, config.username, config.key_path),
                    out)
       IN  /\ tj_manager' = Some(c.obj)
           /\ wire' = wire \o c.events
           /\ pending' = IF c.raised = "" THEN "" ELSE out
    /\ pc' = "tj_finally"
    /\ UNCHANGED <<kl_vars, ss_vars, xc_vars, dc_vars, sc_vars, settings, dm_init, offered, entry, request, dev_idx,
                   cmd_idx, results, command_results, device_manager, device_error,
                   jumphost_manager, global_jumphost_manager, device_jumphost_managers, reply>>

\* lines 97-138: the result is built by the try block or by the except clause
\* of the exception, the finally block disconnects the manager and swallows
\* what disconnect() raises, and the result is returned
TjHttpFinally(bad) ==
    /\ pc = "tj_finally"
    /\ entry = "http_test"
    /\ LET config == offered.jumphost
           d == JumphostManager_disconnect(tj_manager[1], bad)
           result ==
               IF pending = ""
               THEN JumphostTestResult(config, TRUE, "Successfully connected to jumphost",
                                       NoObject)
               ELSE IF pending = "FileNotFoundError"
               THEN JumphostTestResult(config, FALSE,
                                       "Jumphost connection failed: SSH key not found",
                                       Some("SSH key not found"))
               ELSE JumphostTestResult(config, FALSE, "Jumphost connection failed",
                                       Some(pending))
       IN  /\ tj_manager' = Some(d.obj)
           /\ wire' = wire \o d.events
           /\ reply' = [NoReply EXCEPT !.kind = "test_result", !.status = 200, !.body = result]
    /\ pending' = ""
    /\ pc' = "done"
    /\ UNCHANGED <<kl_vars, ss_vars, xc_vars, dc_vars, sc_vars, settings, dm_init, offered, entry, request, dev_idx,
                   cmd_idx, results, command_results, device_manager, device_error,
                   jumphost_manager, global_jumphost_manager, device_jumphost_managers>>

\* the arguments the constructor call of the tool reads with arguments[...]
McpRequiredArguments == {"host", "username", "key_path"}

\* lines 277-282, 300-303: a required argument is missing, the KeyError is
\* caught by `except Exception` and the failure text is returned
TjMcpKeyError(args) ==
    /\ pc = "idle"
    /\ offered' = args
    /\ ~(McpRequiredArguments \subseteq DOMAIN args)
    /\ entry' = "mcp_test"
    /\ reply' = McpText("Jumphost connection failed")
    /\ pc' = "done"
    /\ UNCHANGED <<kl_vars, ss_vars, tj_vars, xc_vars, dc_vars, sc_vars, settings, dm_init, request, dev_idx, cmd_idx,
                   results, command_results, device_manager, device_error, jumphost_manager,
                   global_jumphost_manager, device_jumphost_managers, pending, wire>>

\* lines 277-282: the manager is created from the arguments as they are
TjMcpCreate(args) ==
    /\ pc = "idle"
    /\ offered' = args
    /\ McpRequiredArguments \subseteq DOMAIN args
    /\ entry' = "mcp_test"
    /\ tj_manager' = Some(JumphostManager(args.host,
                                          IF "port" \in DOMAIN args THEN args.port
                                          ELSE McpDefaultPort,
                                          args.username, args.key_path))
    /\ pending' = ""
    /\ pc' = "tj_connect"
    /\ UNCHANGED <<kl_vars, ss_vars, xc_vars, dc_vars, sc_vars, settings, dm_init, request, dev_idx, cmd_idx,
                   results, command_results, device_manager, device_error, jumphost_manager,
                   global_jumphost_manager, device_jumphost_managers, reply, wire>>

\* lines 284-285: jumphost_manager.connect()
TjMcpConnect(out) ==
    /\ pc = "tj_connect"
    /\ entry = "mcp_test"
    /\ LET c == JumphostManager_connect(tj_manager[1], out)
       IN  /\ tj_manager' = Some(c.obj)
           /\ wire' = wire \o c.events
           /\ pending' = IF c.raised = "" THEN "" ELSE out
    /\ pc' = "tj_finally"
    /\ UNCHANGED <<kl_vars, ss_vars, xc_vars, dc_vars, sc_vars, settings, dm_init, offered, entry, request, dev_idx,
                   cmd_idx, results, command_results, device_manager, device_error,
                   jumphost_manager, global_jumphost_manager, device_jumphost_managers, reply>>

\* lines 286-303: the finally block calls disconnect() unguarded; what it
\* raises replaces the return value or the exception under way and is caught
\* by `except Exception`
TjMcpFinally(bad) ==
    /\ pc = "tj_finally"
    /\ entry = "mcp_test"
    /\ LET d == JumphostManager_disconnect(tj_manager[1], bad)
       IN  /\ tj_manager' = Some(d.obj)
           /\ wire' = wire \o d.events
           /\ reply' = IF d.raised # "" THEN McpText("Jumphost connection failed")
                       ELSE IF pending = "" THEN McpText("Successfully connected to jumphost")
                       ELSE IF pending = "FileNotFoundError" THEN McpText("SSH key not found")
                       ELSE McpText("Jumphost connection failed")
    /\ pending' = ""
    /\ pc' = "done"
    /\ UNCHANGED <<kl_vars, ss_vars, xc_vars, dc_vars, sc_vars, settings, dm_init, offered, entry, request, dev_idx,
                   cmd_idx, results, command_results, device_manager, device_error,
                   jumphost_manager, global_jumphost_manager, device_jumphost_managers>>

InitJumphostTest ==
    /\ settings = SettingsIncomplete
    /\ dm_init = "ok"
    /\ HandlersIdle
    /\ sc_raw = RawCommand(<<>>, None, None)
    /\ sc_pc = "off"
    /\ sc_result = NoShowCommand
    /\ sc_full = None
    /\ dc_raw = NoObject
    /\ dc_pc = "off"
    /\ dc_result = NoDeviceCredentials
    /\ xc_call = NoObject
    /\ xc_pc = "off"
    /\ xc_result = NoObject
    /\ tj_manager = NoObject
    /\ ss_dm = NoObject
    /\ ss_calls = <<>>
    /\ kl_jm = NoObject
    /\ kl_file = NoObject
    /\ kl_calls = <<>>

NextJumphostTest ==
    \/ \E raw \in JumphostTestRequests : TjHttpRejected(raw)
    \/ \E raw \in JumphostTestRequests : TjHttpAccepted(raw)
    \/ \E out \in JumphostTestOutcomes : TjHttpConnect(out)
    \/ \E bad \in SUBSET JumphostHosts : TjHttpFinally(bad)
    \/ \E args \in JumphostTestArguments : TjMcpKeyError(args)
    \/ \E args \in JumphostTestArguments : TjMcpCreate(args)
    \/ \E out \in JumphostTestOutcomes : TjMcpConnect(out)
    \/ \E bad \in SUBSET JumphostHosts : TjMcpFinally(bad)

SpecJumphostTest == InitJumphostTest /\ [][NextJumphostTest]_vars

(***************************************************************************)
(* app/device_manager.py: one DeviceManager and the calls made on it.  Its *)
(* callers create it, call connect() once, execute_command() for each      *)
(* command and disconnect() at the end; execute_command() and disconnect() *)
(* are also called here in the states their callers do not call them in.   *)
(***************************************************************************)
MaxCalls == 3

\* a password, a user name and a host name that hold characters of the
\* shell, and a password that is refused
SessionCredentialInputs ==
    ValidRawDevices \cup
    { [RawDevice(<<"r","1">>, os_ios, DefaultPort, NoObject) EXCEPT !.password = <<"p","'",";","x">>],
      [RawDevice(<<"r","1">>, os_ios, DefaultPort, NoObject) EXCEPT !.username = <<"u"," ","-","o">>],
      RawDevice(<<"r","1","\n">>, os_ios, DefaultPort, NoObject),
      [RawDevice(<<"r","1">>, os_ios, DefaultPort, NoObject) EXCEPT !.password = <<>>] }

\* the managers: one for each of those credentials that DeviceCredentials accepts
SessionManagers ==
    { DeviceManager(DeviceCredentials(d).value, DefaultTimeout) :
        d \in {x \in SessionCredentialInputs : DeviceCredentials(x).ok} }

InitSession ==
    /\ settings = SettingsIncomplete
    /\ dm_init = "ok"
    /\ HandlersIdle
    /\ sc_raw = RawCommand(<<>>, None, None)
    /\ sc_pc = "off"
    /\ sc_result = NoShowCommand
    /\ sc_full = None
    /\ dc_raw = NoObject
    /\ dc_pc = "off"
    /\ dc_result = NoDeviceCredentials
    /\ xc_call = NoObject
    /\ xc_pc = "off"
    /\ xc_result = NoObject
    /\ tj_manager = NoObject
    /\ ss_dm \in {Some(dm) : dm \in SessionManagers}
    /\ ss_calls = <<>>
    /\ kl_jm = NoObject
    /\ kl_file = NoObject
    /\ kl_calls = <<>>

\* what is kept of a call: the method, the connection before and after it,
\* what it raised and what it sent
SessionCall(method, before, x, raised) ==
    [method |-> method, before |-> before.connection, after |-> x.obj.connection,
     raised |-> raised, events |-> x.events]

\* device_manager.connect(), called once on a manager (main.py:276,
\* mcp_server.py:223)
SsConnect(out) ==
    /\ ss_dm # NoObject
    /\ Len(ss_calls) < MaxCalls
    /\ \A i \in 1..Len(ss_calls) : ss_calls[i].method # "connect"
    /\ LET x == DeviceManager_connect(ss_dm[1], out)
       IN  /\ ss_dm' = Some(x.obj)
           /\ ss_calls' = Append(ss_calls, SessionCall("connect", ss_dm[1], x, x.raised))
    /\ UNCHANGED <<handler_vars, sc_vars, dc_vars, xc_vars, tj_vars, kl_vars>>

\* device_manager.execute_command(command)
SsExecute(raw, out) ==
    /\ ss_dm # NoObject
    /\ Len(ss_calls) < MaxCalls
    /\ LET x == execute_command(ss_dm[1], ShowCommand(raw).value, FALSE, out, "ok")
       IN  /\ ss_dm' = Some(x.obj)
           /\ ss_calls' = Append(ss_calls, SessionCall("execute", ss_dm[1], x, x.raised))
    /\ UNCHANGED <<handler_vars, sc_vars, dc_vars, xc_vars, tj_vars, kl_vars>>

\* device_manager.disconnect(): it returns whatever connection.disconnect() did
SsDisconnect ==
    /\ ss_dm # NoObject
    /\ Len(ss_calls) < MaxCalls
    /\ LET x == DeviceManager_disconnect(ss_dm[1])
       IN  /\ ss_dm' = Some(x.obj)
           /\ ss_calls' = Append(ss_calls, SessionCall("disconnect", ss_dm[1], x, ""))
    /\ UNCHANGED <<handler_vars, sc_vars, dc_vars, xc_vars, tj_vars, kl_vars>>

NextSession ==
    \/ \E out \in DeviceConnectOutcomes : SsConnect(out)
    \/ \E raw \in ValidRawCommands :
           \E out \in ExecuteOutcomes(ShowCommand(raw).value) : SsExecute(raw, out)
    \/ SsDisconnect

SpecSession == InitSession /\ [][NextSession]_vars

(***************************************************************************)
(* JumphostManager.connect and the key file it is given.                   *)
(***************************************************************************)
\* the key files: none at the path, one that cannot be read, and readable
\* ones that each set of key classes loads
KeyFiles ==
    { [exists |-> FALSE, readable |-> FALSE, loads |-> {}],
      [exists |-> TRUE, readable |-> FALSE, loads |-> {}] }
    \cup { [exists |-> TRUE, readable |-> TRUE, loads |-> l] :
             l \in SUBSET {KeyClasses[n] : n \in 1..Len(KeyClasses)} }

\* the managers: one for each jumphost configuration that is accepted
KeyLoadManagers ==
    { JumphostManager(c.host, c.port, c.username, c.key_path) :
        c \in {x \in JumphostTestConfigs : JumphostConfig(Some(x)).ok} }

InitKeyLoad ==
    /\ settings = SettingsIncomplete
    /\ dm_init = "ok"
    /\ HandlersIdle
    /\ sc_raw = RawCommand(<<>>, None, None)
    /\ sc_pc = "off"
    /\ sc_result = NoShowCommand
    /\ sc_full = None
    /\ dc_raw = NoObject
    /\ dc_pc = "off"
    /\ dc_result = NoDeviceCredentials
    /\ xc_call = NoObject
    /\ xc_pc = "off"
    /\ xc_result = NoObject
    /\ tj_manager = NoObject
    /\ ss_dm = NoObject
    /\ ss_calls = <<>>
    /\ kl_jm \in {Some(jm) : jm \in KeyLoadManagers}
    /\ kl_file \in {Some(f) : f \in KeyFiles}
    /\ kl_calls = <<>>

\* jumphost_manager.connect(), called once on a manager
KlConnect(net) ==
    /\ kl_jm # NoObject
    /\ kl_calls = <<>>
    /\ LET c == JumphostManager_connect_key(kl_jm[1], kl_file[1], net)
       IN  /\ kl_jm' = Some(c.obj)
           /\ kl_calls' = Append(kl_calls, [method |-> "connect", raised |-> c.raised,
                                            events |-> c.events])
    /\ UNCHANGED <<handler_vars, sc_vars, dc_vars, xc_vars, tj_vars, ss_vars, kl_file>>

\* jumphost_manager.disconnect() after it
KlDisconnect(bad) ==
    /\ kl_jm # NoObject
    /\ Len(kl_calls) = 1
    /\ LET c == JumphostManager_disconnect(kl_jm[1], bad)
       IN  /\ kl_jm' = Some(c.obj)
           /\ kl_calls' = Append(kl_calls, [method |-> "disconnect", raised |-> c.raised,
                                            events |-> c.events])
    /\ UNCHANGED <<handler_vars, sc_vars, dc_vars, xc_vars, tj_vars, ss_vars, kl_file>>

NextKeyLoad ==
    \/ \E net \in {"ok", "SSHException"} : KlConnect(net)
    \/ \E bad \in SUBSET JumphostHosts : KlDisconnect(bad)

SpecKeyLoad == InitKeyLoad /\ [][NextKeyLoad]_vars

(***************************************************************************)
(* Properties.                                                             *)
(***************************************************************************)
\* the texts handed to connection.execute so far
ExecuteEvents == {i \in 1..Len(wire) : wire[i].op = "execute"}

\* the number of events of one kind so far
CountEvents(op) == Cardinality({i \in 1..Len(wire) : wire[i].op = op})

\* the positions of "|" in a text
PipePositions(s) == {k \in 1..Len(s) : s[k] = "|"}

\* s has the form <command> | <include|exclude|begin|section> <pipe value>
\* around the pipe at position k
IsFilterForm(s, k) ==
    \E o \in PipeOption :
        /\ k >= 3
        /\ s[k - 1] = " "
        /\ Len(s) >= k + Len(o) + 3
        /\ s[k + 1] = " "
        /\ SubSeq(s, k + 2, k + 1 + Len(o)) = o
        /\ s[k + 2 + Len(o)] = " "

\* C1: every text handed to connection.execute is the full command of a
\* validated command of the request: it begins with "show" in any letter case,
\* and it holds a "|" only once, in the form
\* <command> | <include|exclude|begin|section> <pipe value>.
C1_OnlyShowCommandsReachDevice ==
    \A i \in ExecuteEvents :
        LET s == wire[i].data
        IN  /\ \E j \in 1..Len(request.commands) : s = get_full_command(request.commands[j])
            /\ Len(s) >= 4
            /\ Lower(SubSeq(s, 1, 4)) = kw_show
            /\ Cardinality(PipePositions(s)) <= 1
            /\ \A k \in PipePositions(s) : IsFilterForm(s, k)

\* a filtered command was sent to a device
C1_Witness ==
    \E i \in ExecuteEvents :
        /\ Cardinality(PipePositions(wire[i].data)) = 1
        /\ Lower(SubSeq(wire[i].data, 1, 4)) = kw_show

\* the exceptions that can leave the try block of execute_commands
JumphostFailures == {"HTTPException", "SSH key not found", "Unable to connect to jumphost"}

\* C2: a failure while connecting to a device or running its commands never
\* leaves process_device: the only exceptions that end execute_commands come
\* from the jumphost set-up, every device before the current one has its
\* result, and a returned response holds one DeviceResult per device.
C2_DeviceIsolation ==
    entry = "http" =>
        /\ pending \in {""} \cup JumphostFailures
        /\ pc \in {"ec_loop", "pd_create", "pd_connect", "pd_exec", "pd_return"}
              => Len(results) = dev_idx - 1
        /\ (pc \in {"ec_finally", "done"} /\ pending = "" /\ reply.kind # "validation_error")
              => Len(results) = Len(request.devices)
        /\ reply.kind = "response"
              => Len(reply.body.results) = Len(request.devices)

\* a response in which a device that could not be reached is followed by a
\* device whose session was opened
C2_Witness ==
    /\ entry = "http"
    /\ reply.kind = "response"
    /\ \E i, j \in 1..Len(reply.body.results) :
        /\ i < j
        /\ ~reply.body.results[i].success
        /\ reply.body.results[i].error = Some("failed to connect to device")
        /\ reply.body.results[j].success

\* C3 as the specification states it: when no global jumphost is requested,
\* every accepted request is answered with a response that holds one
\* DeviceResult per device, a device whose jumphost could not be connected
\* included.
C3_JumphostFailureIsDeviceResult ==
    (entry = "http" /\ pc = "done" /\ reply.kind # "validation_error" /\ ~request.use_jumphost)
        => /\ reply.kind = "response"
           /\ Len(reply.body.results) = Len(request.devices)

\* the execute events at the end of the wire, after the last device_connect
SentToCurrentDevice ==
    LET opens == {i \in 1..Len(wire) : wire[i].op = "device_connect"}
        last  == CHOOSE i \in opens : \A k \in opens : k <= i
    IN  IF opens = {} THEN <<>> ELSE SubSeq(wire, last + 1, Len(wire))

\* C4: inside process_device the commands are attempted one by one in request
\* order whatever happened to the earlier ones: after k passes of the loop
\* there are k CommandResults, no exception of a command reaches the device
\* level, a failed command carries its error, and while the session stays
\* open every command so far has been sent, in order.
C4_CommandIsolation ==
    entry = "http" =>
        /\ pc = "pd_exec" => /\ device_error = ""
                            /\ Len(command_results) = cmd_idx - 1
        /\ pc = "pd_return" => device_error \in {"", "failed to connect to device"}
        /\ (pc = "pd_return" /\ device_error = "")
              => Len(command_results) = Len(request.commands)
        /\ \A j \in 1..Len(command_results) :
              ~command_results[j].success =>
                  (command_results[j].error # NoObject /\ command_results[j].error # Some(""))
        /\ (pc \in {"pd_exec", "pd_return"} /\ device_error = ""
                /\ device_manager[1].connection = "connected")
              => /\ Len(SentToCurrentDevice) = Len(command_results)
                 /\ \A j \in 1..Len(command_results) :
                       /\ SentToCurrentDevice[j].op = "execute"
                       /\ SentToCurrentDevice[j].data = get_full_command(request.commands[j])

\* the first of two commands timed out and the second was still sent
C4_Witness ==
    /\ entry = "http"
    /\ pc = "pd_return"
    /\ device_error = ""
    /\ Len(command_results) = 2
    /\ command_results[1].error = Some("timeout occurred")
    /\ Len(SentToCurrentDevice) = 2
    /\ SentToCurrentDevice[2].op = "execute"

\* the errors of creating the device manager and of opening the session
ConnectionLevelErrors ==
    {"DeviceManager.__init__() got an unexpected keyword argument",
     "failed to connect to device"}

\* C5: a DeviceResult has success = false only for a failure of creating the
\* device manager or of opening the session; once the session is open the
\* result has success = true and one CommandResult per requested command,
\* whatever the commands did.
C5_DeviceSuccessIsSessionOpened ==
    entry = "http" =>
        /\ \A i \in 1..Len(results) :
              /\ ~results[i].success =>
                    \E e \in ConnectionLevelErrors : results[i].error = Some(e)
              /\ results[i].success => Len(results[i].commands) = Len(request.commands)
        /\ pc \in {"ec_loop", "pd_create", "ec_finally", "done"}
              => CountSuccessful(results) = CountEvents("device_connect")

\* a device reported as successful although every one of its commands failed
C5_Witness ==
    /\ entry = "http"
    /\ \E i \in 1..Len(results) :
        /\ results[i].success
        /\ Len(results[i].commands) = 2
        /\ \A j \in 1..2 : ~results[i].commands[j].success

\* what an execution that raised is recorded with
ExecutionErrors == {"timeout occurred", "connection closed", "Device not connected"}

\* C6 as the specification states it: a CommandResult has success = false
\* only when the execution of the command raised, and a command recorded as
\* successful carries the raw output of its full command.
C6_ReturnedCommandIsSuccess ==
    entry = "http" =>
        \A j \in 1..Len(command_results) :
            /\ ~command_results[j].success =>
                  \E e \in ExecutionErrors : command_results[j].error = Some(e)
            /\ command_results[j].success
                  => command_results[j].output = RawOutput(command_results[j].command)

\* C7: a DeviceResult with success = false has no command results and a
\* non-empty error; a DeviceResult with success = true has no error.
C7_DeviceResultShape ==
    \A i \in 1..Len(results) :
        /\ ~results[i].success => /\ results[i].commands = <<>>
                                  /\ results[i].error # NoObject
                                  /\ results[i].error # Some("")
        /\ results[i].success => results[i].error = NoObject

\* a failed device and a successful device with command results, side by side
C7_Witness ==
    \E i, j \in 1..Len(results) :
        /\ ~results[i].success
        /\ results[j].success
        /\ Len(results[j].commands) > 0

\* C8: in a response total_devices is the number of results and of requested
\* devices, successful_devices counts the results with success = true, and
\* failed_devices is the rest.
C8_SummaryCounts ==
    reply.kind = "response" =>
        LET b == reply.body
        IN  /\ b.total_devices = Len(b.results)
            /\ b.total_devices = Len(request.devices)
            /\ b.successful_devices = Cardinality({i \in 1..Len(b.results) : b.results[i].success})
            /\ b.failed_devices = b.total_devices - b.successful_devices
            /\ b.failed_devices = Cardinality({i \in 1..Len(b.results) : ~b.results[i].success})

\* a response that counts one successful and one failed device
C8_Witness ==
    /\ reply.kind = "response"
    /\ reply.body.successful_devices = 1
    /\ reply.body.failed_devices = 1

\* C9: the i-th DeviceResult belongs to the i-th device of the request, and
\* the j-th CommandResult of a device is the full command of the j-th command
\* of the request; the response carries the results in that order.
C9_OrderPreserved ==
    entry = "http" =>
        /\ Len(results) <= Len(request.devices)
        /\ \A i \in 1..Len(results) :
              /\ results[i].hostname = request.devices[i].hostname
              /\ \A j \in 1..Len(results[i].commands) :
                    results[i].commands[j].command = get_full_command(request.commands[j])
        /\ reply.kind = "response" => reply.body.results = results

\* a response for two different devices and two different commands
C9_Witness ==
    /\ entry = "http"
    /\ reply.kind = "response"
    /\ Len(results) = 2
    /\ results[1].hostname # results[2].hostname
    /\ Len(results[2].commands) = 2
    /\ results[2].commands[1].command # results[2].commands[2].command

\* the device entries that can be offered and validate
OfferedDevicesValid == {d \in RawDevices : DeviceCredentials(d).ok}

\* the command entries that can be offered (the MCP tool offers the command
\* text alone) and validate
OfferedCommandsValid ==
    {c \in RawCommands \cup {RawCommand(x.command, None, None) : x \in RawCommands} :
        ShowCommand(c).ok}

\* a device entry or a command entry of the offered request does not validate
OfferedInvalid ==
    \/ \E i \in 1..Len(offered.devices) : offered.devices[i] \notin OfferedDevicesValid
    \/ \E j \in 1..Len(offered.commands) : offered.commands[j] \notin OfferedCommandsValid

\* the handler has answered with the validation failure and nothing else
\* has happened: no event on the wire, no manager, no result
RejectedAsAWhole ==
    /\ pc = "done"
    /\ wire = <<>>
    /\ results = <<>>
    /\ command_results = <<>>
    /\ device_manager = NoObject
    /\ global_jumphost_manager = NoObject
    /\ device_jumphost_managers = <<>>
    /\ reply.body.results = <<>>
    /\ entry = "http" => reply.kind = "validation_error"
    /\ entry = "mcp" => /\ reply.kind = "text"
                        /\ reply.text \in {"Validation error", "Command validation failed"}

\* C10: a request with an invalid device or command is rejected as a whole
\* before any network activity, by the HTTP endpoint and by the MCP tool: the
\* answer is the validation failure, there is no event on the wire, no
\* manager and no result.
C10_ValidationPrecedesNetwork ==
    (entry # "none" /\ ~RejectedAsAWhole) => ~OfferedInvalid

\* a rejected request whose first device and first command were valid
C10_Witness ==
    /\ entry = "http"
    /\ pc = "done"
    /\ reply.kind = "validation_error"
    /\ Len(offered.devices) = 2
    /\ Len(offered.commands) = 2
    /\ \A i \in 1..2 : DeviceCredentials(offered.devices[i]).ok
    /\ ShowCommand(offered.commands[1]).ok
    /\ ~ShowCommand(offered.commands[2]).ok

\* C11: a validated request that asks for the global jumphost while one of
\* JUMPHOST_HOST, JUMPHOST_USERNAME, JUMPHOST_KEY_PATH is missing never gets
\* past the configuration check: there is no event on the wire, no jumphost
\* manager, no device manager and no result, and the answer is the
\* configuration error (status 400 from the endpoint, the configuration
\* text from the MCP tool).
C11_IncompleteGlobalJumphostFails ==
    (request.use_jumphost /\ ~SettingsAll) =>
        /\ wire = <<>>
        /\ global_jumphost_manager = NoObject
        /\ device_jumphost_managers = <<>>
        /\ device_manager = NoObject
        /\ results = <<>>
        /\ entry = "http" => pc \in {"ec_global", "ec_finally", "done"}
        /\ entry = "mcp" => pc \in {"mcp_jumphost", "done"}
        /\ (pc = "done" /\ entry = "http") =>
               (reply.kind = "error" /\ reply.status = 400)
        /\ (pc = "done" /\ entry = "mcp") =>
               reply = McpText("Jumphost requested but global configuration is incomplete")

\* two valid devices, the global jumphost requested, only the key path
\* missing: answered with 400
C11_Witness ==
    /\ entry = "http"
    /\ pc = "done"
    /\ request.use_jumphost
    /\ settings = SettingsNoKeyPath
    /\ Len(request.devices) = 2
    /\ reply.status = 400
    /\ wire = <<>>

\* process_device is running for request.devices[dev_idx]
InProcessDevice == entry = "http" /\ pc \in {"pd_create", "pd_connect", "pd_exec", "pd_return"}

\* the manager behind the handle passed to process_device
ManagerOf(handle) ==
    IF handle = GlobalHandle THEN global_jumphost_manager
    ELSE IF \E i \in 1..Len(device_jumphost_managers) : device_jumphost_managers[i].key = handle
    THEN Some(device_jumphost_managers[
             CHOOSE i \in 1..Len(device_jumphost_managers) :
                 device_jumphost_managers[i].key = handle].manager)
    ELSE NoObject

EntriesOf(key) ==
    {k \in 1..Len(device_jumphost_managers) : device_jumphost_managers[k].key = key}

\* the devices of the request that have been given to process_device so far
DevicesReached ==
    {i \in 1..Len(request.devices) :
        i < dev_idx \/ (i = dev_idx /\ pc \in {"pd_create", "pd_connect", "pd_exec", "pd_return"})}

\* C13: in one request the devices whose own jumphost configurations have
\* the same (host, port, username) share one JumphostManager: the dictionary
\* holds exactly one manager for the identity of every device reached so
\* far, and, until the managers are closed, the connection attempts on the
\* wire are one per manager that has a client (those of the dictionary and
\* the global one), however many devices used it.
C13_SameIdentitySharesManager ==
    entry = "http" =>
        /\ \A i \in DevicesReached :
               request.devices[i].jumphost # NoObject =>
                   Cardinality(EntriesOf(DeviceKey(request.devices[i].jumphost[1]))) = 1
        /\ \A k \in 1..Len(device_jumphost_managers) :
               Cardinality(EntriesOf(device_jumphost_managers[k].key)) = 1
        /\ pc # "done" =>
               CountEvents("jumphost_connect") + CountEvents("jumphost_connect_failed")
                 = Cardinality({k \in 1..Len(device_jumphost_managers) :
                                   device_jumphost_managers[k].manager.client # "None"})
                   + (IF global_jumphost_manager # NoObject
                         /\ global_jumphost_manager[1].client # "None" THEN 1 ELSE 0)

\* two devices with the same jumphost identity: the second one is being
\* processed and there is one manager and one connection
C13_Witness ==
    /\ entry = "http"
    /\ pc = "pd_connect"
    /\ dev_idx = 2
    /\ ~request.use_jumphost
    /\ request.devices[1].jumphost = Some(jumphostA)
    /\ request.devices[2].jumphost = Some(jumphostA)
    /\ Len(device_jumphost_managers) = 1
    /\ CountEvents("jumphost_connect") = 1
    /\ jumphost_manager = DeviceKey(jumphostA)

\* the (host, port, username) of a JumphostManager
IdentityOf(jm) == <<jm.jumphost_host, jm.jumphost_port, jm.jumphost_username>>

\* C14: within one request no two connected jumphost managers have the same
\* (host, port, username): the global manager and a manager of the
\* dictionary are never both connected to the same identity.
C14_OneConnectionPerIdentity ==
    entry = "http" =>
        \A k \in 1..Len(device_jumphost_managers) :
            ~(/\ global_jumphost_manager # NoObject
              /\ global_jumphost_manager[1].client = "connected"
              /\ device_jumphost_managers[k].manager.client = "connected"
              /\ IdentityOf(device_jumphost_managers[k].manager)
                    = IdentityOf(global_jumphost_manager[1]))

\* the number of events of one kind for one host so far
CountHostEvents(op, host) ==
    Cardinality({i \in 1..Len(wire) : wire[i].op = op /\ wire[i].host = host})

\* every jumphost manager the request created: the global one and those of
\* the dictionary
AllJumphostManagers ==
    (IF global_jumphost_manager = NoObject THEN {} ELSE {global_jumphost_manager[1]})
    \cup {device_jumphost_managers[k].manager : k \in 1..Len(device_jumphost_managers)}

\* C15: when execute_commands has ended (with a response, with the
\* configuration error or with the exception of a jumphost connect), every
\* SSH client that a connect() of the request created has been closed: for
\* each jumphost host there are as many close events as connection
\* attempts, also when the close of another manager raised, and a manager
\* still holds a client only if its own close raised.
C15_ProxiesReleased ==
    (entry = "http" /\ pc = "done") =>
        /\ \A h \in JumphostHosts :
               CountHostEvents("jumphost_close", h)
                 = CountHostEvents("jumphost_connect", h)
                   + CountHostEvents("jumphost_connect_failed", h)
        /\ \A m \in AllJumphostManagers :
               m.client # "None" =>
                   \E i \in 1..Len(wire) :
                       wire[i] = Event("jumphost_close", m.jumphost_host, <<"error">>)

\* two jumphosts were connected, the close of the first raised and the
\* second was closed after it
C15_Witness ==
    /\ entry = "http"
    /\ pc = "done"
    /\ Len(device_jumphost_managers) = 2
    /\ \E i, j \in 1..Len(wire) :
          /\ i < j
          /\ wire[i] = Event("jumphost_close", jumphostA.host, <<"error">>)
          /\ wire[j] = Event("jumphost_close", jumphostB.host, <<>>)
    /\ device_jumphost_managers[1].manager.client = "connected"
    /\ device_jumphost_managers[2].manager.client = "None"

\* the events of a device session
SessionOpens == {"device_connect", "device_connect_failed"}

\* the disconnect at position i of the wire ends the k-th session
SessionNumber(i) == Cardinality({j \in 1..i : wire[j].op = "device_disconnect"})

\* the session that the disconnect at position i ends had been opened: the
\* event before its commands is device_connect
SessionOpened(i) ==
    \E j \in 1..(i-1) :
        /\ wire[j].op = "device_connect"
        /\ \A l \in (j+1)..(i-1) : wire[l].op = "execute"

\* C16: every DeviceManager that process_device created and connected is
\* disconnected exactly once before process_device returns: between two
\* devices the wire holds one disconnect per connection attempt, a
\* disconnect directly follows the connection attempt or the last command
\* of the same device, no command is sent outside an open session, and the
\* DeviceResult of the device is the same whether or not the disconnect
\* raised (success iff the session had been opened, an error iff not) and
\* no exception leaves process_device.
C16_SessionReleased ==
    entry = "http" =>
        /\ pc \in {"ec_loop", "pd_create", "ec_finally", "done"} =>
               CountEvents("device_disconnect")
                 = CountEvents("device_connect") + CountEvents("device_connect_failed")
        /\ pc \in {"pd_exec", "pd_return"} =>
               CountEvents("device_disconnect") + 1
                 = CountEvents("device_connect") + CountEvents("device_connect_failed")
        /\ \A i \in 1..Len(wire) :
               /\ wire[i].op = "device_disconnect" =>
                     /\ i > 1
                     /\ wire[i-1].op \in SessionOpens \cup {"execute"}
                     /\ wire[i-1].host = wire[i].host
                     /\ LET k == SessionNumber(i)
                        IN  /\ k <= Len(results)
                            /\ results[k].hostname = wire[i].host
                            /\ results[k].success = SessionOpened(i)
                            /\ (results[k].error = NoObject) = SessionOpened(i)
               /\ wire[i].op = "execute" =>
                     /\ i > 1
                     /\ wire[i-1].op \in {"device_connect", "execute"}
                     /\ wire[i-1].host = wire[i].host
        /\ pending \in {""} \cup JumphostFailures

\* the first device ran two commands, one of which failed, and was
\* disconnected; the second could not be opened and its disconnect raised
C16_Witness ==
    /\ entry = "http"
    /\ pc = "ec_loop"
    /\ Len(results) = 2
    /\ results[1].success
    /\ Len(results[1].commands) = 2
    /\ ~results[1].commands[2].success
    /\ ~results[2].success
    /\ wire[Len(wire)].op = "device_disconnect"
    /\ wire[Len(wire)].data = <<"error">>
    /\ \E i \in 1..Len(wire) : wire[i].op = "device_disconnect" /\ wire[i].data = <<>>

\* the text begins with show, in any case
BeginsWithShow(t) ==
    /\ Len(t) >= 4
    /\ t[1] \in {"s", "S"}
    /\ t[2] \in {"h", "H"}
    /\ t[3] \in {"o", "O"}
    /\ t[4] \in {"w", "W"}

\* the text without the whitespace before its first and after its last
\* other character
Trimmed(t) ==
    IF \A i \in 1..Len(t) : t[i] \in Whitespace THEN <<>>
    ELSE LET first == CHOOSE i \in 1..Len(t) :
                         t[i] \notin Whitespace /\ \A j \in 1..(i-1) : t[j] \in Whitespace
             last  == CHOOSE i \in 1..Len(t) :
                         t[i] \notin Whitespace /\ \A j \in (i+1)..Len(t) : t[j] \in Whitespace
         IN  [k \in 1..(last - first + 1) |-> t[first + k - 1]]

\* C17 as stated: every command that does not begin with show, in any
\* case, fails validation with the show-only message.
C17_NonShowGetsShowOnlyMessage ==
    (sc_pc \in {"constructed", "full"} /\ ~BeginsWithShow(sc_raw.command)) =>
        /\ ~sc_result.ok
        /\ sc_result.error = "Only 'show' commands are allowed"

\* C17, amended: every command that does not begin with show, in any case,
\* once the whitespace around it is trimmed, fails validation; the message
\* is the show-only message unless the trimmed command is empty ("Command
\* cannot be empty") or longer than 1000 characters ("Command exceeds
\* maximum length").
C17_NonShowRejected ==
    (sc_pc \in {"constructed", "full"} /\ ~BeginsWithShow(Trimmed(sc_raw.command))) =>
        /\ ~sc_result.ok
        /\ sc_result.error =
              IF Len(Trimmed(sc_raw.command)) = 0 THEN "Command cannot be empty"
              ELSE IF Len(Trimmed(sc_raw.command)) > MaxCommandLength
                   THEN "Command exceeds maximum length"
              ELSE "Only 'show' commands are allowed"

\* a command that holds show but does not begin with it was refused with
\* the show-only message
C17_Witness ==
    /\ sc_pc = "constructed"
    /\ sc_raw.command = <<" ","n","o","s","h","o","w"," ","a">>
    /\ ~sc_result.ok
    /\ sc_result.error = "Only 'show' commands are allowed"

\* the characters the patterns of DANGEROUS_PATTERNS are made of
DenylistedChars == {";", "\n", "\r", Backtick, "$", "|", "&", ">", "<", "!"}

\* the text holds a denylisted character
HasDenylisted(t) == \E i \in 1..Len(t) : t[i] \in DenylistedChars

\* the error cites a disallowed character and names a pattern of
\* DANGEROUS_PATTERNS that occurs in the text
CitesOccurringPattern(t) ==
    /\ sc_result.error = "Command contains disallowed character(s)"
    /\ sc_result.pattern \in 1..Len(DANGEROUS_PATTERNS)
    /\ Contains(t, DANGEROUS_PATTERNS[sc_result.pattern])

\* C18 as stated: every command that holds a denylisted character anywhere
\* fails validation with the disallowed-character error, and the error
\* names a pattern that occurs in the command.
C18_DenylistedAnywhereIsCited ==
    (sc_pc \in {"constructed", "full"} /\ HasDenylisted(sc_raw.command)) =>
        /\ ~sc_result.ok
        /\ CitesOccurringPattern(sc_raw.command)

\* C18, amended: every command that still holds a denylisted character
\* once the whitespace around it is trimmed fails validation; when the
\* trimmed command begins with show and has at most 1000 characters the
\* error is the disallowed-character error and names a pattern that occurs
\* in the trimmed command.
C18_DenylistedRejected ==
    (sc_pc \in {"constructed", "full"} /\ HasDenylisted(Trimmed(sc_raw.command))) =>
        /\ ~sc_result.ok
        /\ (BeginsWithShow(Trimmed(sc_raw.command))
              /\ Len(Trimmed(sc_raw.command)) <= MaxCommandLength)
             => CitesOccurringPattern(Trimmed(sc_raw.command))

\* show followed by && was refused and the error names &&
C18_Witness ==
    /\ sc_pc = "constructed"
    /\ sc_raw.command = <<"s","h","o","w"," ","&","&">>
    /\ ~sc_result.ok
    /\ sc_result.error = "Command contains disallowed character(s)"
    /\ DANGEROUS_PATTERNS[sc_result.pattern] = <<"&","&">>

\* C19: no ShowCommand with exactly one of pipe_option and pipe_value set
\* is accepted.
C19_PipeFieldsComeTogether ==
    (sc_pc \in {"constructed", "full"} /\ sc_result.ok) =>
        ((sc_result.value.pipe_option = None) <=> (sc_result.value.pipe_value = None))

\* C20: for a constructed ShowCommand with both pipe fields set,
\* get_full_command() is the validated command, a blank, "|", a blank, the
\* value of the pipe option, a blank and the pipe value, and nothing else;
\* with a pipe field absent it is the validated command alone.  The
\* validated command is the given command without the whitespace around it.
C20_FullCommandForm ==
    sc_pc = "full" =>
        LET c == sc_result.value
            n == Len(c.command)
            o == IF c.pipe_option = None THEN 0 ELSE Len(c.pipe_option)
        IN  /\ c.command = Trimmed(sc_raw.command)
            /\ (c.pipe_option # None /\ c.pipe_value # None) =>
                  /\ c.pipe_option \in PipeOption
                  /\ Len(sc_full) = n + 3 + o + 1 + Len(c.pipe_value)
                  /\ \A i \in 1..n : sc_full[i] = c.command[i]
                  /\ sc_full[n + 1] = " "
                  /\ sc_full[n + 2] = "|"
                  /\ sc_full[n + 3] = " "
                  /\ \A i \in 1..o : sc_full[n + 3 + i] = c.pipe_option[i]
                  /\ sc_full[n + 3 + o + 1] = " "
                  /\ \A i \in 1..Len(c.pipe_value) :
                        sc_full[n + 3 + o + 1 + i] = c.pipe_value[i]
            /\ (c.pipe_option = None \/ c.pipe_value = None) => sc_full = c.command

\* " Show a" with include and the value "x y" gives "Show a | include x y"
C20_Witness ==
    /\ sc_pc = "full"
    /\ sc_raw = RawCommand(<<" ","S","h","o","w"," ","a","\n">>, kw_include, <<"x"," ","y">>)
    /\ sc_full = <<"S","h","o","w"," ","a"," ","|"," ","i","n","c","l","u","d","e"," ","x"," ","y">>

\* ASCII letters, digits, the space character, ".", "-" and "_"
AllowListChars == LowerLetters \cup UpperLetters \cup Digits \cup {" ", ".", "-", "_"}

\* C21: every accepted command is show followed only by letters, digits,
\* the space character, ".", "-" and "_", and every accepted pipe value
\* holds only those characters and ",", "(" and ")"; no other character,
\* such as a tab, is accepted.
C21_AcceptedIsAllowListed ==
    (sc_pc \in {"constructed", "full"} /\ sc_result.ok) =>
        /\ BeginsWithShow(sc_result.value.command)
        /\ \A i \in 5..Len(sc_result.value.command) :
               sc_result.value.command[i] \in AllowListChars
        /\ sc_result.value.pipe_value # None =>
               \A i \in 1..Len(sc_result.value.pipe_value) :
                   sc_result.value.pipe_value[i] \in AllowListChars \cup {",", "(", ")"}

\* the text is empty or holds whitespace only
Blank(t) == \A i \in 1..Len(t) : t[i] \in Whitespace

\* C22 as stated: every empty or whitespace-only command, every command
\* longer than 1000 characters and every pipe value longer than 500
\* characters is rejected.
C22_LengthLimitsOnInput ==
    sc_pc \in {"constructed", "full"} =>
        /\ Blank(sc_raw.command) => ~sc_result.ok
        /\ Len(sc_raw.command) > MaxCommandLength => ~sc_result.ok
        /\ (sc_raw.pipe_value # None /\ Len(sc_raw.pipe_value) > MaxPipeValueLength)
              => ~sc_result.ok

\* C22, amended: every empty or whitespace-only command, every command
\* that is longer than 1000 characters once the whitespace around it is
\* trimmed, and every pipe value longer than 500 characters is rejected.
C22_LengthLimitsAfterTrim ==
    sc_pc \in {"constructed", "full"} =>
        /\ Blank(sc_raw.command) => ~sc_result.ok
        /\ Len(Trimmed(sc_raw.command)) > MaxCommandLength => ~sc_result.ok
        /\ (sc_raw.pipe_value # None /\ Len(sc_raw.pipe_value) > MaxPipeValueLength)
              => ~sc_result.ok

\* show followed by 996 letters, 1001 characters, was refused for its length
C22_Witness ==
    /\ sc_pc = "constructed"
    /\ BeginsWithShow(sc_raw.command)
    /\ Len(sc_raw.command) = MaxCommandLength + 1
    /\ Len(Trimmed(sc_raw.command)) = MaxCommandLength + 1
    /\ ~sc_result.ok
    /\ sc_result.error = "Command exceeds maximum length"

\* the text spells junos, each letter in either case
SpellsJunos(t) ==
    /\ Len(t) = 5
    /\ t[1] \in {"j", "J"}
    /\ t[2] \in {"u", "U"}
    /\ t[3] \in {"n", "N"}
    /\ t[4] \in {"o", "O"}
    /\ t[5] \in {"s", "S"}

\* the five supported families as the caller writes them
SupportedFamilies ==
    { <<"i","o","s">>, <<"i","o","s","x","e">>, <<"i","o","s","x","r">>,
      <<"n","x","o","s">>, <<"a","s","a">> }

\* C23: credentials whose os spells junos in any case are rejected with the
\* JunOS message (which names the family and explains that its pipe syntax
\* is incompatible) and not with the error of the enumeration; credentials
\* with one of the five supported families, all else valid, are accepted
\* with that family.
C23_JunosRejectedWithItsOwnError ==
    dc_pc = "constructed" =>
        /\ SpellsJunos(dc_raw[1].os) =>
               /\ ~dc_result.ok
               /\ dc_result.error = "JunOS is not supported"
        /\ (/\ dc_raw[1].os \in SupportedFamilies
            /\ dc_raw[1] = RawDevice(<<"r","1">>, dc_raw[1].os, DefaultPort, NoObject)) =>
               /\ dc_result.ok
               /\ dc_result.value.os = dc_raw[1].os

\* JunOS in mixed case was refused with the JunOS message
C23_Witness ==
    /\ dc_pc = "constructed"
    /\ dc_raw[1].os = <<"J","u","n","O","S">>
    /\ ~dc_result.ok
    /\ dc_result.error = "JunOS is not supported"

\* C24: every accepted hostname is non-empty, at most 255 characters long
\* and made of ASCII letters, digits, ".", "-" and ":" from its first to its
\* last character; a trailing newline is not admitted.
C24_AcceptedHostnameGrammar ==
    (dc_pc = "constructed" /\ dc_result.ok) =>
        /\ Len(dc_result.value.hostname) >= 1
        /\ Len(dc_result.value.hostname) <= MaxHostnameLength
        /\ \A i \in 1..Len(dc_result.value.hostname) :
               dc_result.value.hostname[i] \in Alnum \cup {".", "-", ":"}

\* C25: with every other field valid, a device port and the port of the
\* device's jumphost configuration are accepted exactly when they lie in
\* 1..65535 and are kept as given; any other port is refused with "Port
\* must be between 1 and 65535"; a port that is left out is 22.
C25_PortRange ==
    dc_pc = "constructed" =>
        LET kw == dc_raw[1]
        IN  /\ ("port" \in DOMAIN kw
                 /\ kw = RawDevice(<<"r","1">>, os_ios, kw.port, NoObject)) =>
                   /\ dc_result.ok <=> (1 <= kw.port /\ kw.port <= 65535)
                   /\ dc_result.ok => dc_result.value.port = kw.port
                   /\ ~dc_result.ok => dc_result.error = "Port must be between 1 and 65535"
            /\ "port" \notin DOMAIN kw =>
                   /\ dc_result.ok
                   /\ dc_result.value.port = 22
            /\ ("port" \in DOMAIN kw /\ kw.jumphost # NoObject
                 /\ "port" \in DOMAIN kw.jumphost[1]) =>
                   /\ dc_result.ok <=>
                         (1 <= kw.jumphost[1].port /\ kw.jumphost[1].port <= 65535)
                   /\ dc_result.ok => dc_result.value.jumphost[1].port = kw.jumphost[1].port
                   /\ ~dc_result.ok => dc_result.error = "Port must be between 1 and 65535"
            /\ ("port" \in DOMAIN kw /\ kw.jumphost # NoObject
                 /\ "port" \notin DOMAIN kw.jumphost[1]) =>
                   /\ dc_result.ok
                   /\ dc_result.value.jumphost[1].port = 22

\* port 0 was refused with the port message
C25_Witness ==
    /\ dc_pc = "constructed"
    /\ "port" \in DOMAIN dc_raw[1]
    /\ dc_raw[1].port = 0
    /\ ~dc_result.ok
    /\ dc_result.error = "Port must be between 1 and 65535"

\* the call under way had the device answer the command, was asked to parse,
\* and the parser failed
ParserFailed ==
    /\ xc_call # NoObject
    /\ xc_call[1].dm.connection = "connected"
    /\ xc_call[1].out = "ok"
    /\ xc_call[1].parse
    /\ xc_call[1].parser # "ok"

\* C26: parsing is best-effort.  When the device answered the command, parsing
\* was requested and the parser failed in whatever way, execute_command
\* returns normally the raw output, no parsed output and a non-empty parse
\* error; and whether execute_command raises, and what, never depends on the
\* parse request or on the parser.
C26_ParsingIsBestEffort ==
    xc_pc = "returned" =>
        LET c == xc_call[1]
            x == xc_result[1]
        IN  /\ ParserFailed =>
                /\ x.raised = ""
                /\ x.ret.type = "tuple"
                /\ Len(x.ret.items) = 3
                /\ x.ret.items[1] = RawOutput(get_full_command(c.command))
                /\ x.ret.items[2] = None
                /\ x.ret.items[3] # None
                /\ x.ret.items[3] # <<>>
            /\ x.raised = execute_command(c.dm, c.command, FALSE, c.out, "ok").raised

C26_Witness ==
    /\ xc_pc = "returned"
    /\ ParserFailed
    /\ xc_call[1].parser = "ImportError"
    /\ xc_call[1].command.pipe_option # None
    /\ xc_result[1].raised = ""
    /\ xc_result[1].ret.items[3] = ParseErrorText("ImportError")


\* the device answered the command of this "execute" event
Answered(e) ==
    /\ e.op = "execute"
    /\ "ok" \in ExecuteOutcomes([command |-> e.data])

CountAnswered == Cardinality({i \in 1..Len(wire) : Answered(wire[i])})

CountParsed == Cardinality({i \in 1..Len(wire) : wire[i].op = "parse"})

\* C27: the parser is invoked for a command the device answered if and only
\* if the request's output_format is "parsed" or "both": never with "raw",
\* and once per answered command, on its base command, with the other two.
C27_ParserInvokedIffRequested ==
    entry = "http" =>
        IF request.output_format \in {"parsed", "both"}
        THEN /\ CountParsed = CountAnswered
             /\ \A i \in 1..Len(wire) :
                    Answered(wire[i]) =>
                        /\ i < Len(wire)
                        /\ wire[i + 1].op = "parse"
                        /\ \E j \in 1..Len(request.commands) :
                               /\ wire[i].data = get_full_command(request.commands[j])
                               /\ wire[i + 1].data = request.commands[j].command
        ELSE CountParsed = 0


\* the jumphost test reported success
TjSuccess ==
    IF entry = "http_test" THEN reply.body.success
    ELSE reply.text = "Successfully connected to jumphost"

\* the jumphost test reported an error
TjError ==
    IF entry = "http_test" THEN reply.body.error # NoObject
    ELSE reply.text \in {"SSH key not found", "Jumphost connection failed"}

\* the jumphost test ran and returned its result
TjReturned ==
    /\ entry \in {"http_test", "mcp_test"}
    /\ pc = "done"
    /\ reply.kind \in {"test_result", "text"}

\* C28: the jumphost test never opens a session to a target device and never
\* raises; it reports success without an error exactly when the proxy
\* connect succeeded and failure with an error otherwise, and the result is
\* returned only after the jumphost connection was disconnected.
C28_JumphostTestOutcome ==
    entry \in {"http_test", "mcp_test"} =>
        /\ \A i \in 1..Len(wire) : wire[i].op \in {"jumphost_connect", "jumphost_connect_failed",
                                                   "jumphost_close"}
        /\ pc = "done" => reply # NoReply /\ pending = ""
        /\ TjReturned =>
            /\ TjSuccess <=> \E i \in 1..Len(wire) : wire[i].op = "jumphost_connect"
            /\ TjSuccess <=> ~TjError
            /\ \/ tj_manager = NoObject
               \/ tj_manager[1].client = "None"
               \/ wire[Len(wire)].op = "jumphost_close"


\* each device entry of the request gets at most one session-open attempt
NoSessionRetry ==
    \A h \in {request.devices[i].hostname : i \in 1..Len(request.devices)} :
        CountHostEvents("device_connect", h) + CountHostEvents("device_connect_failed", h)
            <= Cardinality({i \in 1..Len(request.devices) : request.devices[i].hostname = h})

\* each (device entry, command entry) pair gets at most one execute call
NoExecuteRetry ==
    \A h \in {request.devices[i].hostname : i \in 1..Len(request.devices)} :
        \A t \in {get_full_command(request.commands[j]) : j \in 1..Len(request.commands)} :
            Cardinality({l \in 1..Len(wire) :
                            wire[l].op = "execute" /\ wire[l].host = h /\ wire[l].data = t})
                <= Cardinality({i \in 1..Len(request.devices) : request.devices[i].hostname = h})
                   * Cardinality({j \in 1..Len(request.commands) :
                                     get_full_command(request.commands[j]) = t})

\* each proxy identity gets at most one connect attempt (the identities of
\* the inputs differ in their hosts)
NoProxyRetry ==
    \A jh \in JumphostHosts :
        CountHostEvents("jumphost_connect", jh) + CountHostEvents("jumphost_connect_failed", jh)
            <= 1

\* C29: nothing is retried.  Within one request each device gets at most one
\* session-open attempt, each (device, command) pair at most one execute
\* call, and each proxy identity at most one connect attempt.
C29_NothingRetried ==
    entry = "http" => NoSessionRetry /\ NoExecuteRetry /\ NoProxyRetry


\* the session-open attempts before position j of the wire
OpensBefore(j) == Cardinality({l \in 1..(j-1) : wire[l].op \in SessionOpens})

\* the device disconnects before position j of the wire
ClosesBefore(j) == Cardinality({l \in 1..(j-1) : wire[l].op = "device_disconnect"})

\* C30: the devices are processed strictly one at a time.  A session is
\* opened only when every earlier session has been disconnected, a command is
\* sent and a disconnect is made only while exactly one session is not yet
\* disconnected, the sessions are those of the devices in request order, and
\* between two devices and at the end no session is left.
C30_OneDeviceAtATime ==
    entry = "http" =>
        /\ \A j \in 1..Len(wire) :
            /\ wire[j].op \in SessionOpens =>
                /\ OpensBefore(j) = ClosesBefore(j)
                /\ wire[j].host = request.devices[OpensBefore(j) + 1].hostname
            /\ wire[j].op \in {"execute", "device_disconnect"} =>
                /\ OpensBefore(j) = ClosesBefore(j) + 1
                /\ wire[j].host = request.devices[OpensBefore(j)].hostname
        /\ pc \in {"ec_loop", "pd_create", "pd_connect", "ec_finally", "done"} =>
               OpensBefore(Len(wire) + 1) = ClosesBefore(Len(wire) + 1)

C30_Witness ==
    /\ entry = "http"
    /\ pc = "done"
    /\ Len(request.devices) = 2
    /\ request.devices[1].hostname # request.devices[2].hostname
    /\ \E a, b, c, d \in 1..Len(wire) :
        /\ a < b /\ b < c /\ c < d
        /\ wire[a].op = "device_connect" /\ wire[a].host = request.devices[1].hostname
        /\ wire[b].op = "device_disconnect" /\ wire[b].host = request.devices[1].hostname
        /\ wire[c].op = "device_connect" /\ wire[c].host = request.devices[2].hostname
        /\ wire[d].op = "device_disconnect" /\ wire[d].host = request.devices[2].hostname
    /\ \E l \in 1..Len(wire) : wire[l].op = "execute"


\* C31: when a proxy has been resolved for a device, its session is opened
\* through the transport of that proxy: once the session of the device that
\* process_device was given a jumphost manager for is open, a channel to the
\* device has been obtained from that manager.
C31_SessionThroughResolvedProxy ==
    (InProcessDevice /\ pc \in {"pd_exec", "pd_return"} /\ jumphost_manager # None
        /\ device_manager # NoObject /\ device_manager[1].connection = "connected") =>
        \E j \in 1..Len(wire) :
            /\ wire[j].op = "jumphost_channel"
            /\ wire[j].host = ManagerOf(jumphost_manager)[1].jumphost_host
            /\ wire[j].data = request.devices[dev_idx].hostname


\* before call j the session had been Open and was closed by disconnect()
ClosedBefore(j) ==
    \E i \in 1..(j-1) : ss_calls[i].method = "disconnect" /\ ss_calls[i].before # "None"

C33_DisconnectIdempotent ==
    ss_dm # NoObject =>
        \A j \in 1..Len(ss_calls) :
            ss_calls[j].method = "disconnect" =>
                /\ ss_calls[j].raised = ""
                /\ ss_calls[j].after = "None"
                /\ ss_calls[j].before = "None" <=> ss_calls[j].events = <<>>
                /\ ss_calls[j].before # "None" =>
                       /\ Len(ss_calls[j].events) = 1
                       /\ ss_calls[j].events[1].op = "device_disconnect"
                       /\ ss_calls[j].events[1].data = <<"error">>
                              <=> ss_calls[j].before = "unconnected"
                /\ j = Len(ss_calls) => ss_dm[1].connection = "None"

C33_Witness ==
    /\ ss_dm # NoObject
    /\ Len(ss_calls) = 3
    /\ ss_calls[1].method = "connect" /\ ss_calls[1].raised # ""
    /\ ss_calls[2].method = "disconnect"
    /\ ss_calls[2].events # <<>> /\ ss_calls[2].events[1].data = <<"error">>
    /\ ss_calls[3].method = "disconnect" /\ ss_calls[3].events = <<>>
    /\ ss_dm[1].connection = "None"


\* the characters that end a quoted word or start a further word or command
\* of a command line
ShellBreaking == {"'", "\"", ";", "|", "&", "$", Backtick, "<", ">", "(", ")", "\n", " "}

\* the number of characters of the text that are in the set
CountChars(text, set) == Cardinality({i \in 1..Len(text) : text[i] \in set})

\* the start command has the structure of its template,
\* sshpass -p '<password>' ssh <username>@<hostname>: two quotes, four
\* blanks and no other character of ShellBreaking
StructureKept(start) ==
    /\ CountChars(start, {"'"}) = 2
    /\ CountChars(start, {" "}) = 4
    /\ CountChars(start, ShellBreaking \ {"'", " "}) = 0

\* C39: for every accepted DeviceCredentials the start command that
\* DeviceManager.connect builds from password, username and hostname keeps
\* the structure of its template: no field ends the quoted password or adds a
\* further word or command.
C39_StartCommandStructure ==
    ss_dm # NoObject =>
        \A j \in 1..Len(ss_calls) :
            ss_calls[j].method = "connect" => StructureKept(ss_calls[j].events[1].data)


\* the calls that open a proxy connection
ProxyConnects == {"jumphost_connect", "jumphost_connect_failed"}

KeyConnects == {i \in 1..Len(kl_calls) : kl_calls[i].method = "connect"}

\* the key classes a call tried, in the order of the attempts
KeysTried(call) ==
    LET at == {n \in 1..Len(call.events) : call.events[n].op = "load_key"}
    IN  [n \in 1..Cardinality(at) |-> call.events[n].data[1]]

\* the network connections a call attempted
NetworkAttempts(call) ==
    {n \in 1..Len(call.events) : call.events[n].op \in ProxyConnects}

\* the place in KeyClasses of the first class that loads the file, 0 when none does
FirstLoading(file) ==
    LET at == {n \in 1..Len(KeyClasses) : KeyClasses[n] \in file.loads}
    IN  IF at = {} THEN 0 ELSE CHOOSE n \in at : \A m \in at : n <= m

\* what connect() does with a key file that exists and is tried class by class
KeyTriedInOrder(call, file) ==
    LET first == FirstLoading(file)
    IN  IF first = 0
        THEN /\ KeysTried(call) = KeyClasses
             /\ call.raised = "Unable to load private key"
             /\ NetworkAttempts(call) = {}
        ELSE /\ KeysTried(call) = SubSeq(KeyClasses, 1, first)
             /\ NetworkAttempts(call) = {Len(call.events)}
             /\ call.events[Len(call.events)].data = <<KeyClasses[first]>>

\* what connect() does when there is no file at the path
KeyNotFound(call) ==
    /\ call.raised = "SSH key not found"
    /\ call.events = <<>>

\* C35, as stated: a missing key file fails with the key-not-found error
\* before anything else; every other key file is tried as RSA, Ed25519 and
\* ECDSA in that order, the first class that loads it gives the key of the
\* network connect and ends the attempts, and when no class loads it connect()
\* fails with the unparseable-key error and no network connection.
C35_KeyLoading ==
    \A i \in KeyConnects :
        IF ~kl_file[1].exists THEN KeyNotFound(kl_calls[i])
        ELSE KeyTriedInOrder(kl_calls[i], kl_file[1])

\* C35, amended: that holds of every key file that can be read; a key file
\* that exists and cannot be read ends connect() at the first attempt with
\* the I/O error of the read, the later classes untried, and no network
\* connection.
C35_KeyLoadingOfReadableFiles ==
    \A i \in KeyConnects :
        IF ~kl_file[1].exists THEN KeyNotFound(kl_calls[i])
        ELSE IF kl_file[1].readable THEN KeyTriedInOrder(kl_calls[i], kl_file[1])
        ELSE /\ kl_calls[i].raised = "IOError"
             /\ KeysTried(kl_calls[i]) = <<KeyClasses[1]>>
             /\ NetworkAttempts(kl_calls[i]) = {}

C35_Witness ==
    /\ KeyConnects # {}
    /\ kl_file[1].loads = {"Ed25519Key", "ECDSAKey"}
    /\ KeysTried(kl_calls[1]) = <<"RSAKey", "Ed25519Key">>
    /\ kl_calls[1].events[3].op = "jumphost_connect"
    /\ kl_calls[1].events[3].data = <<"Ed25519Key">>


\* what the devices are sent: session opens, commands and session closes
DeviceOps == SessionOpens \cup {"execute", "device_disconnect"}

\* the managers the request holds: the global one and those of the dictionary
HeldManagers ==
    (IF global_jumphost_manager = NoObject THEN {} ELSE {global_jumphost_manager[1]})
    \cup {device_jumphost_managers[n].manager : n \in 1..Len(device_jumphost_managers)}

EveryDeviceHasOwnJumphost ==
    /\ request.devices # <<>>
    /\ \A n \in 1..Len(request.devices) : request.devices[n].jumphost # NoObject

\* C37, as stated: in POST /api/v1/execute the default jumphost is connected
\* only when some device of the request has no jumphost configuration of its
\* own; a request whose devices all carry their own never creates the global
\* manager and is never answered with the error of the global configuration
\* or of the global connect.
C37_DefaultJumphostOnlyWhenUsed ==
    (entry = "http" /\ EveryDeviceHasOwnJumphost) =>
        /\ global_jumphost_manager = NoObject
        /\ pc = "done" => ~(reply.kind = "error" /\ results = <<>> /\ wire = <<>>)


\* C38, as stated: the MCP execute_show_commands tool always ends with a
\* text and never with an exception, and when it has ended every jumphost
\* client it created (a connect attempt that reached the network, successful
\* or not) has been closed afterwards and every device session it opened or
\* tried to open has been disconnected afterwards.
C38_McpToolReleasesEverything ==
    (entry = "mcp" /\ pc = "done") =>
        /\ reply.kind = "text"
        /\ \A i \in 1..Len(wire) :
               /\ wire[i].op \in ProxyConnects =>
                      \E j \in (i+1)..Len(wire) :
                          wire[j].op = "jumphost_close" /\ wire[j].host = wire[i].host
               /\ wire[i].op \in SessionOpens =>
                      \E j \in (i+1)..Len(wire) :
                          wire[j].op = "device_disconnect" /\ wire[j].host = wire[i].host


====
